---- MODULE Spec2Model ----
(***************************************************************************)
(* A model of drone-svd: the tree model of a device, the integer literal   *)
(* parser, the inheritance fallback chain, tree traversal, the variant     *)
(* tracer and collector, the cluster-dimension combinator, the register    *)
(* pass and the index pass of the generator, dimension groups, field bit   *)
(* ranges, the interrupt pass and the removal of a register by its path.   *)
(*                                                                         *)
(* Representation.  Option<T> is a sequence of length <= 1 (None == <<>>,  *)
(* Some(x) == <<x>>).  An ordered map keyed by name (IndexMap) is a        *)
(* sequence of entries with pairwise distinct names.  A string that is     *)
(* parsed is a sequence of one-character strings; a name is a sequence of   *)
(* tokens (see Names).                                                     *)
(* A Result is a record with a field tag in {"ok", "err", "panic"}.      *)
(***************************************************************************)
EXTENDS Integers, Sequences, FiniteSets, TLC

VARIABLES
    device,        \* the Device handed to the generator (mutated by trace_variants)
    exclude,       \* Generator::exclude_peripherals
    pool_size,     \* the pool_size argument of the striped runs
    pool_number,   \* the pool_number argument of the current run (0: the unstriped run)
    pc,            \* position of the current run
    idx,           \* position of the for peripheral in device.peripherals loop
    generated,     \* the dedup set generated of generate_regs
    output,        \* the units written to the output file by the current run
    result,        \* the result of the current run
    runs,          \* the finished runs, in order: unstriped, then pool 1..pool_size
    input,         \* the Device as parsed, or the arguments of a function applied on its own
    ret            \* what that function returned, or the state of the index pass

vars == <<device, exclude, pool_size, pool_number, pc, idx, generated, output,
          result, runs, input, ret>>

-----------------------------------------------------------------------------
(* Option and sequence helpers *)

None == <<>>

Some(x) == <<x>>

\* Option::or
OptOr(a, b) == IF a # <<>> THEN a ELSE b

\* Option::unwrap_or
UnwrapOr(o, d) == IF o # <<>> THEN o[1] ELSE d

Range(s) == {s[i] : i \in 1..Len(s)}

Max2(a, b) == IF a >= b THEN a ELSE b

RECURSIVE SeqMax(_, _)
\* iter().max().unwrap_or(d) over a sequence of numbers
SeqMax(s, d) == IF s = <<>> THEN d
                ELSE IF Len(s) = 1 THEN s[1]
                ELSE Max2(s[1], SeqMax(Tail(s), d))

RECURSIVE SeqSum(_)
SeqSum(s) == IF s = <<>> THEN 0 ELSE s[1] + SeqSum(Tail(s))

RECURSIVE SeqProduct(_)
SeqProduct(s) == IF s = <<>> THEN 1 ELSE s[1] * SeqProduct(Tail(s))

\* the strings of length 0..n over the alphabet A
StringsUpTo(A, n) == UNION {[1..k -> A] : k \in 0..n}

\* index of the entry named n in an ordered map, 0 when there is none
IndexOf(map, n) ==
    IF \E i \in 1..Len(map) : map[i].name = n
    THEN CHOOSE i \in 1..Len(map) : map[i].name = n
    ELSE 0

\* IndexMap::get
MapGet(map, n) == IF IndexOf(map, n) = 0 THEN None ELSE Some(map[IndexOf(map, n)])

-----------------------------------------------------------------------------
(* Integer literal parser: device/mod.rs parse_int *)

\* A u32 is held as two 16-bit limbs <<hi, lo>>, its value hi * 2^16 + lo, so
\* that the overflow test of checked_mul and checked_add is computed exactly.
Limb == 65536

\* char::to_digit(36): the value of a character as a digit, -1 when it is none
DigitVal(c) ==
    CASE c = "0" -> 0 [] c = "1" -> 1 [] c = "2" -> 2 [] c = "3" -> 3
      [] c = "4" -> 4 [] c = "5" -> 5 [] c = "6" -> 6 [] c = "7" -> 7
      [] c = "8" -> 8 [] c = "9" -> 9
      [] c \in {"a", "A"} -> 10 [] c \in {"b", "B"} -> 11
      [] c \in {"c", "C"} -> 12 [] c \in {"d", "D"} -> 13
      [] c \in {"e", "E"} -> 14 [] c \in {"f", "F"} -> 15
      [] OTHER -> -1

RECURSIVE AccumulateDigits(_, _, _)
\* the digit loop of u32::from_str_radix: checked multiply-and-add, left to right
AccumulateDigits(digits, radix, acc) ==
    IF digits = <<>> THEN [tag |-> "ok", val |-> acc]
    ELSE LET d  == DigitVal(digits[1])
             lo == acc[2] * radix + d
             hi == acc[1] * radix + (lo \div Limb)
         IN IF d < 0 \/ d >= radix THEN [tag |-> "err", kind |-> "InvalidDigit"]
            ELSE IF hi >= Limb THEN [tag |-> "err", kind |-> "PosOverflow"]
            ELSE AccumulateDigits(Tail(digits), radix, <<hi, lo % Limb>>)

\* u32::from_str_radix (the standard library): an optional '+' and then digits
from_str_radix(src, radix) ==
    IF src = <<>> THEN [tag |-> "err", kind |-> "Empty"]
    ELSE IF src = <<"+">> \/ src = <<"-">> THEN [tag |-> "err", kind |-> "InvalidDigit"]
    ELSE IF src[1] = "+" THEN AccumulateDigits(Tail(src), radix, <<0, 0>>)
    ELSE AccumulateDigits(src, radix, <<0, 0>>)

StartsWith(src, prefix) ==
    /\ Len(src) >= Len(prefix)
    /\ SubSeq(src, 1, Len(prefix)) = prefix

parse_int(src) ==
    IF StartsWith(src, <<"0", "x">>) \/ StartsWith(src, <<"0", "X">>)
    THEN from_str_radix(SubSeq(src, 3, Len(src)), 16)
    ELSE IF StartsWith(src, <<"0">>) /\ Len(src) > 1
    THEN from_str_radix(SubSeq(src, 2, Len(src)), 8)
    ELSE from_str_radix(src, 10)

-----------------------------------------------------------------------------
(* Inheritance fallback chain: device/register.rs Register::size,          *)
(* Register::reset_value, Register::access.  parent is an                *)
(* Option<&Peripheral>.                                                    *)

\* parent.and_then(|peripheral| peripheral.size)
ParentSize(parent) == IF parent = <<>> THEN None ELSE parent[1].size

ParentResetValue(parent) == IF parent = <<>> THEN None ELSE parent[1].reset_value

ParentAccess(parent) == IF parent = <<>> THEN None ELSE parent[1].access

\* as Register_size with the device consulted before the parent
Register_size_device_first(register, dev, peripheral, parent) ==
    LET v == OptOr(OptOr(OptOr(register.size, peripheral.size), dev.size),
                   ParentSize(parent))
    IN IF v = <<>> THEN [tag |-> "err", kind |-> "missing register size"]
       ELSE [tag |-> "ok", val |-> v[1]]

Register_size(register, dev, peripheral, parent) ==
    LET v == OptOr(OptOr(OptOr(register.size, peripheral.size), ParentSize(parent)),
                   dev.size)
    IN IF v = <<>> THEN [tag |-> "err", kind |-> "missing register size"]
       ELSE [tag |-> "ok", val |-> v[1]]

Register_reset_value(register, dev, peripheral, parent) ==
    LET v == OptOr(OptOr(OptOr(register.reset_value, peripheral.reset_value),
                         ParentResetValue(parent)),
                   dev.reset_value)
    IN IF v = <<>> THEN [tag |-> "err", kind |-> "missing reset value"]
       ELSE [tag |-> "ok", val |-> v[1]]

RECURSIVE FoldFieldAccess(_, _)
\* the try_fold of Register::access: its value is an Option<Option<Access>>,
\* None when the fold stopped early
FoldFieldAccess(fields, prev_access) ==
    IF fields = <<>> THEN Some(prev_access)
    ELSE LET field == fields[1]
             step == IF prev_access = <<>> THEN field.access
                     ELSE IF field.access # <<>> /\ field.access[1] = prev_access[1]
                          THEN field.access
                          ELSE None
         IN IF step = <<>> THEN None
            ELSE FoldFieldAccess(Tail(fields), step)

\* Option<Option<T>>::flatten
Flatten(oo) == IF oo = <<>> THEN None ELSE oo[1]

\* as FieldsAccess, keeping the access of the first field whatever the others say
FieldsAccess_first(fields) == IF fields = <<>> THEN None ELSE fields[1].access

FieldsAccess(fields) == Flatten(FoldFieldAccess(fields, None))

Register_access(register, dev, peripheral, parent) ==
    LET chain == OptOr(OptOr(OptOr(register.access, peripheral.access),
                             ParentAccess(parent)),
                       dev.access)
    IN IF chain # <<>> THEN chain ELSE FieldsAccess(register.fields)

-----------------------------------------------------------------------------
(* Tree model: device/mod.rs Device, device/peripheral.rs Peripheral,      *)
(* device/register.rs Register, Cluster and RegisterTree, device/field.rs  *)
(* Field.  A RegisterTree is a record whose kind is "register" or        *)
(* "cluster"; a register tree is an ordered map of them.                   *)

Field(name, access) == [name |-> name, access |-> access]

Register(name, address_offset) ==
    [kind |-> "register", name |-> name, description |-> "",
     dim |-> None, dim_increment |-> None, alternate_register |-> None,
     address_offset |-> address_offset, size |-> None, access |-> None,
     reset_value |-> None, fields |-> <<>>, variants |-> <<>>]

Cluster(name, address_offset, tree) ==
    [kind |-> "cluster", name |-> name, description |-> "",
     dim |-> None, dim_increment |-> None, alternate_cluster |-> None,
     address_offset |-> address_offset, register |-> tree, variants |-> <<>>]

Peripheral(name, base_address, tree) ==
    [name |-> name, derived_from |-> None, dim |-> None, dim_increment |-> None,
     alternate_peripheral |-> None, base_address |-> base_address,
     size |-> None, reset_value |-> None, access |-> None,
     registers |-> tree, variants |-> <<>>]

Device(peripherals) ==
    [size |-> None, reset_value |-> None, access |-> None,
     peripherals |-> peripherals]

RECURSIVE Peripheral_derived_from_root(_, _)
\* as Peripheral_derived_from with the chain of derived_from followed to its
\* end
Peripheral_derived_from_root(peripheral, dev) ==
    IF peripheral.derived_from = <<>> THEN [tag |-> "ok", val |-> None]
    ELSE LET found == MapGet(dev.peripherals, peripheral.derived_from[1])
         IN IF found = <<>>
            THEN [tag |-> "err", kind |-> "peripheral referenced in derivedFrom not found"]
            ELSE IF found[1].derived_from = <<>> THEN [tag |-> "ok", val |-> found]
            ELSE Peripheral_derived_from_root(found[1], dev)

\* Peripheral::derived_from: Ok(None), Ok(Some(parent)) or an error
Peripheral_derived_from(peripheral, dev) ==
    IF peripheral.derived_from = <<>> THEN [tag |-> "ok", val |-> None]
    ELSE LET found == MapGet(dev.peripherals, peripheral.derived_from[1])
         IN IF found = <<>>
            THEN [tag |-> "err", kind |-> "peripheral referenced in derivedFrom not found"]
            ELSE [tag |-> "ok", val |-> found]

-----------------------------------------------------------------------------
(* Tree traversal: traverse.rs.  paths is the work stack, its top the    *)
(* last element; each entry is a cluster path and the tree to walk.  The   *)
(* value is the sequence of calls f(clusters, register), in call order.    *)

PathKey(path, register) == <<[i \in 1..Len(path) |-> path[i].name], register.name>>

RECURSIVE TraverseLoop(_, _, _)
RECURSIVE TraverseTree(_, _, _, _, _, _)

\* the for node in tree loop of traverse_registers, from node i on
TraverseTree(path, tree, i, paths, visited, calls) ==
    IF i > Len(tree) THEN TraverseLoop(paths, visited, calls)
    ELSE LET node == tree[i] IN
         IF node.kind = "register"
         THEN IF PathKey(path, node) \in visited
              THEN TraverseTree(path, tree, i + 1, paths, visited, calls)
              ELSE TraverseTree(path, tree, i + 1, paths,
                                visited \cup {PathKey(path, node)},
                                Append(calls, [clusters |-> path, register |-> node]))
         ELSE TraverseTree(path, tree, i + 1,
                           Append(paths, [path |-> Append(path, node),
                                          tree |-> node.register]),
                           visited, calls)

\* the while let Some((path, tree)) = paths.pop() loop
TraverseLoop(paths, visited, calls) ==
    IF paths = <<>> THEN calls
    ELSE TraverseTree(paths[Len(paths)].path, paths[Len(paths)].tree, 1,
                      SubSeq(paths, 1, Len(paths) - 1), visited, calls)

traverse_registers(paths) == TraverseLoop(paths, {}, <<>>)

\* as traverse_peripheral_registers with the tree of the parent pushed last, so
\* that it is popped first
traverse_parent_first(peripheral, parent) ==
    traverse_registers(
        <<[path |-> <<>>, tree |-> peripheral.registers]>>
        \o (IF parent = <<>> THEN <<>>
            ELSE <<[path |-> <<>>, tree |-> parent[1].registers]>>))

traverse_peripheral_registers(peripheral, parent) ==
    traverse_registers(
        (IF parent = <<>> THEN <<>>
         ELSE <<[path |-> <<>>, tree |-> parent[1].registers]>>)
        \o <<[path |-> <<>>, tree |-> peripheral.registers]>>)

-----------------------------------------------------------------------------
(* Variant tracer: variant.rs trace_tree and trace_variants *)

RECURSIVE PushToAll(_, _, _)
\* for variant in variants { map.get_mut(&variant).unwrap().variants.push(key) }
PushToAll(map, names, key) ==
    IF names = <<>> THEN map
    ELSE LET j == IndexOf(map, names[1])
         IN PushToAll([map EXCEPT ![j].variants = Append(@, key)], Tail(names), key)

RECURSIVE trace_tree(_)
RECURSIVE TraceTreeFrom(_, _)

\* as TraceRegisterAlias with the key pushed as for a cluster: also to the
\* entries the target lists already
TraceRegisterAlias_symmetric(tree, k, j) ==
    IF j = 0
    THEN [tag |-> "err", kind |-> "register referenced in alternateRegister not found"]
    ELSE IF tree[j].kind # "register"
    THEN [tag |-> "panic", kind |-> "unwrap_register_mut"]
    ELSE TraceTreeFrom(
             [PushToAll(tree, tree[j].variants, tree[k].name) EXCEPT
                 ![j].variants = Append(@, tree[k].name)],
             k + 1)

\* alternate_register of the register at entry k, found at entry j (0: not found)
TraceRegisterAlias(tree, k, j) ==
    IF j = 0
    THEN [tag |-> "err", kind |-> "register referenced in alternateRegister not found"]
    ELSE IF tree[j].kind # "register"
    THEN [tag |-> "panic", kind |-> "unwrap_register_mut"]
    ELSE TraceTreeFrom([tree EXCEPT ![j].variants = Append(@, tree[k].name)], k + 1)

\* as TraceClusterAlias with a missing key passed over
TraceClusterAlias_lenient(tree, k, j) ==
    IF j = 0 THEN TraceTreeFrom(tree, k + 1)
    ELSE IF tree[j].kind # "cluster"
    THEN [tag |-> "panic", kind |-> "unwrap_cluster_mut"]
    ELSE TraceTreeFrom(
             [PushToAll(tree, tree[j].variants, tree[k].name) EXCEPT
                 ![j].variants = Append(@, tree[k].name)],
             k + 1)

\* alternate_cluster of the cluster at entry k, found at entry j (0: not found)
TraceClusterAlias(tree, k, j) ==
    IF j = 0
    THEN [tag |-> "err", kind |-> "cluster referenced in alternateCluster not found"]
    ELSE IF tree[j].kind # "cluster"
    THEN [tag |-> "panic", kind |-> "unwrap_cluster_mut"]
    ELSE TraceTreeFrom(
             [PushToAll(tree, tree[j].variants, tree[k].name) EXCEPT
                 ![j].variants = Append(@, tree[k].name)],
             k + 1)

\* the cluster at entry k once trace_tree has returned sub for its own tree
TraceCluster(tree, k, sub) ==
    IF sub.tag # "ok" THEN sub
    ELSE IF tree[k].alternate_cluster = <<>>
    THEN TraceTreeFrom([tree EXCEPT ![k].register = sub.tree], k + 1)
    ELSE TraceClusterAlias([tree EXCEPT ![k].register = sub.tree], k,
                           IndexOf(tree, tree[k].alternate_cluster[1]))

\* the loop over the keys of the tree in trace_tree, from entry k on
TraceTreeFrom(tree, k) ==
    IF k > Len(tree) THEN [tag |-> "ok", tree |-> tree]
    ELSE IF tree[k].kind = "register"
    THEN IF tree[k].alternate_register = <<>> THEN TraceTreeFrom(tree, k + 1)
         ELSE TraceRegisterAlias(tree, k, IndexOf(tree, tree[k].alternate_register[1]))
    ELSE TraceCluster(tree, k, trace_tree(tree[k].register))

trace_tree(tree) == TraceTreeFrom(tree, 1)

RECURSIVE TraceVariantsFrom(_, _, _)

\* alternate_peripheral of the peripheral at entry k, found at entry j
TracePeripheralAlias(dev, excl, k, j) ==
    IF j = 0
    THEN [tag |-> "err",
          kind |-> "peripheral referenced in alternatePeripheral not found",
          device |-> dev]
    ELSE TraceVariantsFrom(
             [dev EXCEPT !.peripherals =
                 [PushToAll(dev.peripherals, dev.peripherals[j].variants,
                            dev.peripherals[k].name)
                     EXCEPT ![j].variants = Append(@, dev.peripherals[k].name)]],
             excl, k + 1)

\* the peripheral at entry k once trace_tree has returned sub for its tree
TracePeripheral(dev, excl, k, sub) ==
    IF sub.tag # "ok" THEN [tag |-> sub.tag, kind |-> sub.kind, device |-> dev]
    ELSE IF dev.peripherals[k].alternate_peripheral = <<>>
    THEN TraceVariantsFrom([dev EXCEPT !.peripherals[k].registers = sub.tree],
                           excl, k + 1)
    ELSE TracePeripheralAlias(
             [dev EXCEPT !.peripherals[k].registers = sub.tree], excl, k,
             IndexOf(dev.peripherals, dev.peripherals[k].alternate_peripheral[1]))

\* the loop over the keys of device.peripherals in trace_variants
TraceVariantsFrom(dev, excl, k) ==
    IF k > Len(dev.peripherals) THEN [tag |-> "ok", device |-> dev]
    ELSE IF dev.peripherals[k].name \in Range(excl)
    THEN TraceVariantsFrom(dev, excl, k + 1)
    ELSE TracePeripheral(dev, excl, k, trace_tree(dev.peripherals[k].registers))

\* as trace_variants with no peripheral skipped
trace_variants_all(dev, excl) == TraceVariantsFrom(dev, <<>>, 1)

trace_variants(dev, excl) == TraceVariantsFrom(dev, excl, 1)

-----------------------------------------------------------------------------
(* Names.  A name is a sequence of tokens: pieces of plain text and the    *)
(* placeholders "[%s]" and "%s"; the string it stands for is the           *)
(* concatenation of its tokens.  Two names are the same string iff they    *)
(* are the same token sequence, because plain text is never split.         *)

RECURSIVE Join(_)
Join(tokens) == IF tokens = <<>> THEN "" ELSE tokens[1] \o Join(Tail(tokens))

\* generator.rs dim_name: strip_suffix("[%s]") and format!("{}_{}", name, number)
dim_name(number, name) ==
    IF name # <<>> /\ name[Len(name)] = "[%s]"
    THEN Join(SubSeq(name, 1, Len(name) - 1)) \o "_" \o ToString(number)
    ELSE Join(name)

-----------------------------------------------------------------------------
(* Variant collector: variant.rs collect_variants and name_variants.       *)
(* Offsets are small, so the u32 sums never overflow.                      *)

Variant(peripheral, clusters, register) ==
    [peripheral |-> peripheral, clusters |-> clusters, register |-> register,
     name |-> None]

OffsetSum(clusters, register) ==
    SeqSum([i \in 1..Len(clusters) |-> clusters[i].address_offset])
    + register.address_offset

is_paths_equal(clusters_a, register_a, clusters_b, register_b) ==
    OffsetSum(clusters_a, register_a) = OffsetSum(clusters_b, register_b)

\* peripheral_get: the tree of the peripheral, else the tree of the parent
peripheral_get(peripheral, parent, name) ==
    OptOr(MapGet(peripheral.registers, name),
          IF parent = <<>> THEN None ELSE MapGet(parent[1].registers, name))

RECURSIVE RegisterAliases(_, _, _, _, _)

\* one name of register.variants, looked up as o_register
RegisterAlias(peripheral, parent, clusters, names, acc, o_register) ==
    IF o_register = <<>>
    THEN [tag |-> "panic", kind |-> "unwrap on None", variants |-> acc]
    ELSE IF o_register[1].kind # "register"
    THEN [tag |-> "panic", kind |-> "unwrap_register_ref", variants |-> acc]
    ELSE RegisterAliases(peripheral, parent, clusters, Tail(names),
                         Append(acc, Variant(peripheral, clusters, o_register[1])))

\* the loop over register.variants
RegisterAliases(peripheral, parent, clusters, names, acc) ==
    IF names = <<>> THEN [tag |-> "ok", variants |-> acc]
    ELSE RegisterAlias(peripheral, parent, clusters, names, acc,
                       IF clusters # <<>>
                       THEN MapGet(clusters[Len(clusters)].register, names[1])
                       ELSE peripheral_get(peripheral, parent, names[1]))

RECURSIVE MatchingCalls(_, _, _, _, _)
\* the calls of a traversal that is_paths_equal keeps, as variants
MatchingCalls(calls, o_peripheral, ancestor_clusters, clusters, register) ==
    IF calls = <<>> THEN <<>>
    ELSE (IF is_paths_equal(calls[1].clusters, calls[1].register, clusters, register)
          THEN <<Variant(o_peripheral, ancestor_clusters \o calls[1].clusters,
                         calls[1].register)>>
          ELSE <<>>)
         \o MatchingCalls(Tail(calls), o_peripheral, ancestor_clusters, clusters, register)

RECURSIVE ClusterAliasesAt(_, _, _, _, _, _, _)

\* one name of cluster.variants, looked up as o_cluster
ClusterAlias(peripheral, parent, clusters, register, i, names, acc, o_cluster) ==
    IF o_cluster = <<>>
    THEN [tag |-> "panic", kind |-> "unwrap on None", variants |-> acc]
    ELSE IF o_cluster[1].kind # "cluster"
    THEN [tag |-> "panic", kind |-> "unwrap_cluster_ref", variants |-> acc]
    ELSE ClusterAliasesAt(peripheral, parent, clusters, register, i, Tail(names),
             acc \o MatchingCalls(
                        traverse_registers(
                            <<[path |-> <<>>, tree |-> o_cluster[1].register]>>),
                        peripheral,
                        SubSeq(clusters, 1, i - 1),
                        SubSeq(clusters, i, Len(clusters)),
                        register))

\* the loop over cluster.variants at depth i (1-based)
ClusterAliasesAt(peripheral, parent, clusters, register, i, names, acc) ==
    IF names = <<>> THEN [tag |-> "ok", variants |-> acc]
    ELSE ClusterAlias(peripheral, parent, clusters, register, i, names, acc,
                      IF i > 1 THEN MapGet(clusters[i - 1].register, names[1])
                      ELSE peripheral_get(peripheral, parent, names[1]))

RECURSIVE ClusterAliases(_, _, _, _, _, _)

ClusterAliasesNext(peripheral, parent, clusters, register, i, at) ==
    IF at.tag # "ok" THEN at
    ELSE ClusterAliases(peripheral, parent, clusters, register, i - 1, at.variants)

\* the loop for i in (0..clusters.len()).rev(), i 1-based here
ClusterAliases(peripheral, parent, clusters, register, i, acc) ==
    IF i < 1 THEN [tag |-> "ok", variants |-> acc]
    ELSE ClusterAliasesNext(peripheral, parent, clusters, register, i,
             ClusterAliasesAt(peripheral, parent, clusters, register, i,
                              clusters[i].variants, acc))

RECURSIVE PeripheralAliases(_, _, _, _, _)

\* one name of peripheral.variants, o_parent the derived_from of o_peripheral
PeripheralAlias(dev, clusters, register, names, acc, o_peripheral, o_parent) ==
    IF o_parent.tag # "ok"
    THEN [tag |-> "err", kind |-> o_parent.kind, variants |-> acc]
    ELSE PeripheralAliases(dev, clusters, register, Tail(names),
             acc \o MatchingCalls(
                        traverse_peripheral_registers(o_peripheral, o_parent.val),
                        o_peripheral, <<>>, clusters, register))

\* the loop over peripheral.variants
PeripheralAliases(dev, clusters, register, names, acc) ==
    IF names = <<>> THEN [tag |-> "ok", variants |-> acc]
    ELSE IF MapGet(dev.peripherals, names[1]) = <<>>
    THEN [tag |-> "panic", kind |-> "unwrap on None", variants |-> acc]
    ELSE PeripheralAlias(dev, clusters, register, names, acc,
                         MapGet(dev.peripherals, names[1])[1],
                         Peripheral_derived_from(MapGet(dev.peripherals, names[1])[1],
                                                 dev))

\* unique_names: empty strings when every variant has the name of the first
unique_names(names) ==
    IF \A i \in 1..Len(names) : names[i] = names[1]
    THEN [i \in 1..Len(names) |-> <<>>]
    ELSE names

\* the columns of names that name_variants builds: peripheral, clusters, register
NameColumns(variants) ==
    <<unique_names([v \in 1..Len(variants) |-> variants[v].peripheral.name])>>
    \o [i \in 1..Len(variants[1].clusters) |->
           unique_names([v \in 1..Len(variants) |-> variants[v].clusters[i].name])]
    \o <<unique_names([v \in 1..Len(variants) |-> variants[v].register.name])>>

\* the non-empty names of variant v, to be joined by '_'
JoinedName(columns, v) ==
    SelectSeq([c \in 1..Len(columns) |-> columns[c][v]], LAMBDA n : n # <<>>)

\* name_variants: v.clusters[i] is indexed for every i below the number of
\* clusters of variants[0], which panics for a variant with fewer clusters
name_variants(variants) ==
    IF Len(variants) < 2 THEN [tag |-> "ok", variants |-> variants]
    ELSE IF \E v \in 1..Len(variants) :
                Len(variants[v].clusters) < Len(variants[1].clusters)
    THEN [tag |-> "panic", kind |-> "index out of bounds", variants |-> variants]
    ELSE [tag |-> "ok",
          variants |-> [v \in 1..Len(variants) |->
                           [variants[v] EXCEPT
                               !.name = Some(JoinedName(NameColumns(variants), v))]]]

\* name_variants on what the three loops collected
CollectNamed(pers) == IF pers.tag # "ok" THEN pers ELSE name_variants(pers.variants)

\* the third loop, after the cluster aliases clus
CollectPeripheralAliases(dev, peripheral, clusters, register, clus) ==
    IF clus.tag # "ok" THEN clus
    ELSE CollectNamed(PeripheralAliases(dev, clusters, register, peripheral.variants,
                                        clus.variants))

\* the second loop, after the register aliases regs
CollectClusterAliases(dev, peripheral, parent, clusters, register, regs) ==
    IF regs.tag # "ok" THEN regs
    ELSE CollectPeripheralAliases(dev, peripheral, clusters, register,
             ClusterAliases(peripheral, parent, clusters, register, Len(clusters),
                            regs.variants))

collect_variants(dev, peripheral, parent, clusters, register) ==
    CollectClusterAliases(dev, peripheral, parent, clusters, register,
        RegisterAliases(peripheral, parent, clusters, register.variants,
                        <<Variant(peripheral, clusters, register)>>))

-----------------------------------------------------------------------------
(* Cluster-dimension combinator: traverse.rs for_each_clusters_combination, *)
(* with the init and the f the register pass gives it: a pair of the       *)
(* cluster names and the summed cluster address.                           *)

\* matrix[j][i]: the dim of the cluster of variant i at depth j, 0 without one
ClusterMatrix(variants) ==
    [j \in 1..SeqMax([i \in 1..Len(variants) |-> Len(variants[i].clusters)], 0) |->
        [i \in 1..Len(variants) |->
            IF j <= Len(variants[i].clusters)
            THEN UnwrapOr(variants[i].clusters[j].dim, 1)
            ELSE 0]]

\* dim[j]: the largest dim of a row of the matrix
RowMaxima(matrix) == [j \in 1..Len(matrix) |-> SeqMax(matrix[j], 1)]

ClusterDims(variants) == RowMaxima(ClusterMatrix(variants))

RECURSIVE FoldClusters_undivided(_, _, _, _, _)
\* as FoldClusters with the counter left as it is from one depth to the next
FoldClusters_undivided(clusters, dims, j, k, acc) ==
    IF j > Len(clusters) \/ j > Len(dims) THEN [skip |-> FALSE, val |-> acc]
    ELSE LET cluster_n == k % dims[j] IN
         IF cluster_n >= UnwrapOr(clusters[j].dim, 1) THEN [skip |-> TRUE, val |-> acc]
         ELSE FoldClusters_undivided(clusters, dims, j + 1, k,
                  [name |-> Append(acc.name, dim_name(cluster_n, clusters[j].name)),
                   address |-> acc.address + clusters[j].address_offset
                               + cluster_n * UnwrapOr(clusters[j].dim_increment, 0)])

RECURSIVE FoldClusters(_, _, _, _, _)
\* the inner loop over the clusters of one variant, zipped with dim, from
\* depth j on; k is what is left of the counter, acc the value folded so far
FoldClusters(clusters, dims, j, k, acc) ==
    IF j > Len(clusters) \/ j > Len(dims) THEN [skip |-> FALSE, val |-> acc]
    ELSE LET cluster_n == k % dims[j] IN
         IF cluster_n >= UnwrapOr(clusters[j].dim, 1) THEN [skip |-> TRUE, val |-> acc]
         ELSE FoldClusters(clusters, dims, j + 1, k \div dims[j],
                  [name |-> Append(acc.name, dim_name(cluster_n, clusters[j].name)),
                   address |-> acc.address + clusters[j].address_offset
                               + cluster_n * UnwrapOr(clusters[j].dim_increment, 0)])

\* what one counter value n gives each variant
Combination(variants, dims, n) ==
    [i \in 1..Len(variants) |->
        FoldClusters(variants[i].clusters, dims, 1, n, [name |-> <<>>, address |-> 0])]

\* the argument of g for a combination c, none when a variant was skipped
CombinationArg(c) ==
    IF \E i \in 1..Len(c) : c[i].skip THEN <<>>
    ELSE <<[i \in 1..Len(c) |-> c[i].val]>>

RECURSIVE CombinationsFrom(_, _, _, _)
CombinationsFrom(variants, dims, n, count) ==
    IF n >= count THEN <<>>
    ELSE CombinationArg(Combination(variants, dims, n))
         \o CombinationsFrom(variants, dims, n + 1, count)

CombinationsOver(variants, dims) ==
    CombinationsFrom(variants, dims, 0, SeqProduct(dims))

\* the sequence of the arguments g is called with, in call order
for_each_clusters_combination(variants) ==
    CombinationsOver(variants, ClusterDims(variants))

-----------------------------------------------------------------------------
(* Register pass: generator.rs generate_peripheral.  A unit is the         *)
(* sequence of instances one reg! block holds.                             *)

RECURSIVE RegisterData(_, _, _)

\* the tuple of one variant, put before those of the variants after it
RegisterDataCons(variant, dev, parent, size, reset, rest) ==
    IF size.tag # "ok" THEN size
    ELSE IF reset.tag # "ok" THEN reset
    ELSE IF rest.tag # "ok" THEN rest
    ELSE [tag |-> "ok",
          data |-> <<[size |-> size.val, reset_value |-> reset.val,
                      access |-> Register_access(variant.register, dev,
                                                 variant.peripheral, parent)]>>
                   \o rest.data]

\* the closure of the map over the variants, parent the derived_from result
RegisterDataOf(dev, variants, i, parent) ==
    IF parent.tag # "ok" THEN [tag |-> "err", kind |-> parent.kind]
    ELSE RegisterDataCons(variants[i], dev, parent.val,
             Register_size(variants[i].register, dev, variants[i].peripheral, parent.val),
             Register_reset_value(variants[i].register, dev, variants[i].peripheral,
                                  parent.val),
             RegisterData(dev, variants, i + 1))

\* the register_data of the variants from variant i on; the first error ends it
RegisterData(dev, variants, i) ==
    IF i > Len(variants) THEN [tag |-> "ok", data |-> <<>>]
    ELSE RegisterDataOf(dev, variants, i,
                        Peripheral_derived_from(variants[i].peripheral, dev))

PeripheralDimMax(variants) ==
    SeqMax([i \in 1..Len(variants) |-> UnwrapOr(variants[i].peripheral.dim, 1)], 1)

RegisterDimMax(variants) ==
    SeqMax([i \in 1..Len(variants) |-> UnwrapOr(variants[i].register.dim, 1)], 1)

\* the instance of variant i for one peripheral_n, clusters_data and register_n
Instance(variants, register_data, i, peripheral_n, clusters_data, register_n) ==
    LET variant == variants[i] IN
    [peripheral_name |-> dim_name(peripheral_n, variant.peripheral.name),
     name |-> Append(clusters_data[i].name, dim_name(register_n, variant.register.name)),
     address |-> variant.peripheral.base_address
                 + peripheral_n * UnwrapOr(variant.peripheral.dim_increment, 0)
                 + clusters_data[i].address
                 + variant.register.address_offset
                 + register_n * UnwrapOr(variant.register.dim_increment, 0),
     size |-> register_data[i].size,
     reset_value |-> register_data[i].reset_value,
     access |-> register_data[i].access]

InstanceKey(instance) == <<instance.peripheral_name, instance.name>>

RECURSIVE CollectInstances(_, _, _, _, _, _, _, _)

\* as InsertInstance with every instance pushed, generated before or not
InsertInstance_always(variants, register_data, i, peripheral_n, clusters_data, register_n, gen, instances, instance) ==
    CollectInstances(variants, register_data, i + 1, peripheral_n, clusters_data,
                     register_n, gen \cup {InstanceKey(instance)},
                     Append(instances, instance))

\* if !generated.insert(..) { continue 'outer; } and the push of the instance:
\* the continue drops the unit, the inserts made before it stay
InsertInstance(variants, register_data, i, peripheral_n, clusters_data, register_n, gen, instances, instance) ==
    IF InstanceKey(instance) \in gen
    THEN [dropped |-> TRUE, generated |-> gen, instances |-> instances]
    ELSE CollectInstances(variants, register_data, i + 1, peripheral_n, clusters_data,
                          register_n, gen \cup {InstanceKey(instance)},
                          Append(instances, instance))

\* the loop over the variants that fills instances, from variant i on
CollectInstances(variants, register_data, i, peripheral_n, clusters_data, register_n, gen, instances) ==
    IF i > Len(variants) THEN [dropped |-> FALSE, generated |-> gen, instances |-> instances]
    ELSE IF /\ peripheral_n < UnwrapOr(variants[i].peripheral.dim, 1)
            /\ register_n < UnwrapOr(variants[i].register.dim, 1)
    THEN InsertInstance(variants, register_data, i, peripheral_n, clusters_data,
                        register_n, gen, instances,
                        Instance(variants, register_data, i, peripheral_n, clusters_data,
                                 register_n))
    ELSE CollectInstances(variants, register_data, i + 1, peripheral_n, clusters_data,
                          register_n, gen, instances)

\* as stagger_skips with the same units written whatever the pool_number
stagger_skips_every_pool(counter, number, size) == counter % size # 0

\* the stagger closure after its increment: TRUE when the unit is not written
stagger_skips(counter, number, size) == counter % size # number - 1

\* the loops of one visited register, flattened in loop order: peripheral_n
\* outermost, then the cluster combinations, then register_n
SlotsOver(np, combos, nr) ==
    [s \in 1..(np * Len(combos) * nr) |->
        [peripheral_n  |-> (s - 1) \div (Len(combos) * nr),
         clusters_data |-> combos[(((s - 1) % (Len(combos) * nr)) \div nr) + 1],
         register_n    |-> (s - 1) % nr]]

UnitSlots(variants) ==
    SlotsOver(PeripheralDimMax(variants), for_each_clusters_combination(variants),
              RegisterDimMax(variants))

\* the end of one round of the register_n loop, got the result of the loop
\* over the variants: if !stagger() { generate_variants(..) }
\* st: [generated, counter, output]; number and size are the pool arguments
StaggerUnit(st, got, number, size) ==
    IF got.dropped THEN [st EXCEPT !.generated = got.generated]
    ELSE [generated |-> got.generated,
          counter |-> st.counter + 1,
          output |-> IF stagger_skips(st.counter + 1, number, size)
                     THEN st.output
                     ELSE Append(st.output, got.instances)]

RECURSIVE EmitUnits(_, _, _, _, _, _, _)
EmitUnits(variants, register_data, slots, s, st, number, size) ==
    IF s > Len(slots) THEN st
    ELSE EmitUnits(variants, register_data, slots, s + 1,
                   StaggerUnit(st,
                               CollectInstances(variants, register_data, 1,
                                                slots[s].peripheral_n,
                                                slots[s].clusters_data,
                                                slots[s].register_n,
                                                st.generated, <<>>),
                               number, size),
                   number, size)

\* as VisitEmit with a missing attribute found only when the next unit is
\* one this pool writes
VisitEmit_after_stagger(variants, data, st, number, size) ==
    IF data.tag # "ok"
    THEN IF stagger_skips(st.counter + 1, number, size)
         THEN [tag |-> "ok", kind |-> "", st |-> [st EXCEPT !.counter = @ + 1]]
         ELSE [tag |-> "err", kind |-> data.kind, st |-> st]
    ELSE [tag |-> "ok", kind |-> "",
          st |-> EmitUnits(variants, data.data, UnitSlots(variants), 1, st,
                           number, size)]

\* the closure after register_data has been computed
VisitEmit(variants, data, st, number, size) ==
    IF data.tag # "ok" THEN [tag |-> "err", kind |-> data.kind, st |-> st]
    ELSE [tag |-> "ok", kind |-> "",
          st |-> EmitUnits(variants, data.data, UnitSlots(variants), 1, st,
                           number, size)]

\* the closure after collect_variants has returned
VisitCollected(dev, collected, st, number, size) ==
    IF collected.tag # "ok"
    THEN [tag |-> collected.tag, kind |-> collected.kind, st |-> st]
    ELSE VisitEmit(collected.variants, RegisterData(dev, collected.variants, 1), st,
                   number, size)

\* the closure generate_peripheral gives to the traversal, for one call
VisitRegister(dev, peripheral, parent, visit, st, number, size) ==
    VisitCollected(dev,
                   collect_variants(dev, peripheral, parent, visit.clusters,
                                    visit.register),
                   st, number, size)

RECURSIVE VisitAll(_, _, _, _, _, _, _, _)

VisitNext(dev, peripheral, parent, visits, v, r, number, size) ==
    IF r.tag # "ok" THEN r
    ELSE VisitAll(dev, peripheral, parent, visits, v + 1, r.st, number, size)

\* the traversal calling the closure; the first failure ends it
VisitAll(dev, peripheral, parent, visits, v, st, number, size) ==
    IF v > Len(visits) THEN [tag |-> "ok", kind |-> "", st |-> st]
    ELSE VisitNext(dev, peripheral, parent, visits, v,
                   VisitRegister(dev, peripheral, parent, visits[v], st, number, size),
                   number, size)

GeneratePeripheralWith(dev, peripheral, parent, gen, out, number, size) ==
    IF parent.tag # "ok"
    THEN [tag |-> "err", kind |-> parent.kind,
          st |-> [generated |-> gen, counter |-> 0, output |-> out]]
    ELSE VisitAll(dev, peripheral, parent.val,
                  traverse_peripheral_registers(peripheral, parent.val), 1,
                  [generated |-> gen, counter |-> 0, output |-> out], number, size)

\* generate_peripheral: the stagger it is given is a copy of the closure of
\* generate_regs (the closure is Copy and is passed by value), so its counter
\* starts at 0 in every call
generate_peripheral(dev, peripheral, gen, out, number, size) ==
    GeneratePeripheralWith(dev, peripheral, Peripheral_derived_from(peripheral, dev),
                           gen, out, number, size)

RECURSIVE NormalizeFrom(_, _)
\* generator.rs normalize: the peripherals collected again, keyed by name
NormalizeFrom(peripherals, acc) ==
    IF peripherals = <<>> THEN acc
    ELSE LET j == IndexOf(acc, peripherals[1].name) IN
         NormalizeFrom(Tail(peripherals),
                       IF j = 0 THEN Append(acc, peripherals[1])
                       ELSE [acc EXCEPT ![j] = peripherals[1]])

normalize(dev) == [dev EXCEPT !.peripherals = NormalizeFrom(dev.peripherals, <<>>)]

-----------------------------------------------------------------------------
(* The devices the register pass is run on.  Two or three peripherals PA,  *)
(* PB, PC in some order; PB may derive from PA or declare PA as its        *)
(* alternate, PC declares what PB declares.                                *)

MaxPool == 3

PA == <<"PA">>
PB == <<"PB">>
PC == <<"PC">>
PX == <<"PX">>

R0 == Register(<<"R0">>, 0)
R1 == [Register(<<"R1">>, 4) EXCEPT !.size = Some(16)]
RArray == [Register(<<"R", "[%s]">>, 0) EXCEPT !.dim = Some(2), !.dim_increment = Some(4)]
A0 == [Register(<<"A0">>, 0) EXCEPT !.alternate_register = Some(<<"R0">>)]
A4 == [Register(<<"A4">>, 4) EXCEPT !.alternate_register = Some(<<"R0">>)]
CArray == [Cluster(<<"C", "[%s]">>, 0, <<R0>>) EXCEPT
              !.dim = Some(2), !.dim_increment = Some(8)]
CY == Cluster(<<"CY">>, 0, <<R0>>)
CX == [Cluster(<<"CX">>, 0, <<R0, R1>>) EXCEPT !.alternate_cluster = Some(<<"CY">>)]
CZ == [Cluster(<<"CZ">>, 0, <<R1>>) EXCEPT !.alternate_cluster = Some(<<"CY">>)]

Trees == {<<R0>>, <<R0, R1>>, <<RArray>>, <<CArray, R1>>, <<R0, A0>>, <<R0, A4>>,
          <<CY, CX, CZ>>}

\* the trees of the peripherals that may be linked to PA
LinkedTrees == {<<R0>>, <<R0, R1>>, <<RArray>>, <<CArray, R1>>}

Links == {"none", "derived", "alternate", "derived missing", "alternate missing"}

Orders == {<<PA, PB>>, <<PB, PA>>, <<PA, PB, PC>>}

Linked(peripheral, link) ==
    [peripheral EXCEPT
        !.derived_from = IF link = "derived" THEN Some(PA)
                         ELSE IF link = "derived missing" THEN Some(PX) ELSE None,
        !.alternate_peripheral = IF link = "alternate" THEN Some(PA)
                                 ELSE IF link = "alternate missing" THEN Some(PX)
                                 ELSE None]

MakePeripheral(name, tree_a, tree_b, link, base_b) ==
    IF name = PA THEN [Peripheral(PA, 0, tree_a) EXCEPT !.reset_value = Some(0)]
    ELSE Linked(Peripheral(name, base_b, tree_b), link)

\* the size and the reset value the device may define
DeviceAttributes ==
    {[size |-> Some(32), reset_value |-> Some(0)],
     [size |-> None, reset_value |-> Some(0)],
     [size |-> Some(32), reset_value |-> None]}

MakeDevice(order, tree_a, tree_b, link, base_b, attributes) ==
    [Device([i \in 1..Len(order) |->
                MakePeripheral(order[i], tree_a, tree_b, link, base_b)])
        EXCEPT !.size = attributes.size, !.reset_value = attributes.reset_value]

Devices ==
    {MakeDevice(order, tree_a, tree_b, link, base_b, attributes) :
        order \in Orders, tree_a \in Trees, tree_b \in LinkedTrees, link \in Links,
        base_b \in {0, 64}, attributes \in DeviceAttributes}

Excludes == {<<>>, <<PA>>, <<PB>>}

-----------------------------------------------------------------------------
(* Generator::generate_regs, run once unstriped (pool_number 0 here stands *)
(* for pool_number 1 of pool_size 1) and then once for each pool_number    *)
(* of 1..pool_size, each run on its own copy of the parsed device.         *)

Running == [tag |-> "running", kind |-> ""]

NoCall == [tag |-> "none"]

EffNumber == IF pool_number = 0 THEN 1 ELSE pool_number

EffSize == IF pool_number = 0 THEN 1 ELSE pool_size

Init ==
    /\ input \in Devices
    /\ exclude \in Excludes
    /\ pool_size \in 1..MaxPool
    /\ pool_number = 0
    /\ device = input
    /\ pc = "start"
    /\ idx = 0
    /\ generated = {}
    /\ output = <<>>
    /\ result = Running
    /\ runs = <<>>
    /\ ret = NoCall

\* what generate_regs does with the result of trace_variants
Traced(traced) ==
    IF traced.tag = "ok"
    THEN /\ device' = traced.device
         /\ pc' = "loop"
         /\ idx' = 1
         /\ UNCHANGED result
    ELSE /\ result' = [tag |-> traced.tag, kind |-> traced.kind]
         /\ pc' = "done"
         /\ UNCHANGED <<device, idx>>

\* normalize(&mut device); trace_variants(&mut device, &self.exclude_peripherals)?
TraceVariants ==
    /\ pc = "start"
    /\ Traced(trace_variants(normalize(device), exclude))
    /\ UNCHANGED <<exclude, pool_size, pool_number, generated, output, runs, input, ret>>

\* the continue of the peripheral loop for an excluded peripheral
SkipExcluded ==
    /\ pc = "loop"
    /\ idx <= Len(device.peripherals)
    /\ device.peripherals[idx].name \in Range(exclude)
    /\ idx' = idx + 1
    /\ UNCHANGED <<device, exclude, pool_size, pool_number, pc, generated, output,
                   result, runs, input, ret>>

\* what the peripheral loop does with the result r of generate_peripheral
Generated(r) ==
    /\ generated' = r.st.generated
    /\ output' = r.st.output
    /\ IF r.tag = "ok"
       THEN /\ idx' = idx + 1
            /\ UNCHANGED <<pc, result>>
       ELSE /\ result' = [tag |-> r.tag, kind |-> r.kind]
            /\ pc' = "done"
            /\ UNCHANGED idx

\* one call of generate_peripheral from the peripheral loop
GeneratePeripheral ==
    /\ pc = "loop"
    /\ idx <= Len(device.peripherals)
    /\ device.peripherals[idx].name \notin Range(exclude)
    /\ Generated(generate_peripheral(device, device.peripherals[idx], generated, output,
                                     EffNumber, EffSize))
    /\ UNCHANGED <<device, exclude, pool_size, pool_number, runs, input, ret>>

\* the Ok(()) that ends generate_regs
Return ==
    /\ pc = "loop"
    /\ idx > Len(device.peripherals)
    /\ result' = [tag |-> "ok", kind |-> ""]
    /\ pc' = "done"
    /\ UNCHANGED <<device, exclude, pool_size, pool_number, idx, generated, output,
                   runs, input, ret>>

\* the caller: keeps what the run wrote and starts the run of the next pool
NextRun ==
    /\ pc = "done"
    /\ runs' = Append(runs, [number |-> EffNumber, size |-> EffSize,
                            result |-> result, output |-> output,
                            generated |-> generated])
    /\ IF pool_number < pool_size
       THEN /\ pool_number' = pool_number + 1
            /\ device' = input
            /\ pc' = "start"
            /\ idx' = 0
            /\ generated' = {}
            /\ output' = <<>>
            /\ result' = Running
       ELSE /\ pc' = "end"
            /\ UNCHANGED <<device, pool_number, idx, generated, output, result>>
    /\ UNCHANGED <<exclude, pool_size, input, ret>>

-----------------------------------------------------------------------------
(* Index pass: generator.rs generate_index, generate_peripheral_index and  *)
(* generate_reg_tokens.  The index is an ordered map from peripheral       *)
(* instance names to ordered maps from register names to the primary flag. *)
(* The Generator has no core_regs, as Generator::new leaves it.            *)

IndexUpsert_last_wins(registers, name, i) ==
    IF IndexOf(registers, name) = 0
    THEN Append(registers, [name |-> name, primary |-> i = 1])
    ELSE [registers EXCEPT ![IndexOf(registers, name)].primary = (i = 1)]

\* entry(name).or_insert(true) for the first variant of a class (i = 1 here)
\* and insert(name, false) for the others
IndexUpsert(registers, name, i) ==
    IF IndexOf(registers, name) = 0
    THEN Append(registers, [name |-> name, primary |-> i = 1])
    ELSE IF i = 1 THEN registers
    ELSE [registers EXCEPT ![IndexOf(registers, name)].primary = FALSE]

\* index.entry(peripheral_name).or_default()
IndexEntry(index, peripheral_name) ==
    IF IndexOf(index, peripheral_name) = 0
    THEN Append(index, [name |-> peripheral_name, registers |-> <<>>])
    ELSE index

IndexInsertAt(index, p, name, i) ==
    [index EXCEPT ![p].registers = IndexUpsert(index[p].registers, name, i)]

IndexInsert(index, peripheral_name, name, i) ==
    IndexInsertAt(IndexEntry(index, peripheral_name),
                  IndexOf(IndexEntry(index, peripheral_name), peripheral_name), name, i)

RECURSIVE IndexVariants(_, _, _, _)
\* the loop over the variants for one peripheral_n, clusters_name and
\* register_n, from variant i on
IndexVariants(variants, slot, i, index) ==
    IF i > Len(variants) THEN index
    ELSE IF /\ slot.peripheral_n < UnwrapOr(variants[i].peripheral.dim, 1)
            /\ slot.register_n < UnwrapOr(variants[i].register.dim, 1)
    THEN IndexVariants(variants, slot, i + 1,
             IndexInsert(index, dim_name(slot.peripheral_n, variants[i].peripheral.name),
                         Append(slot.clusters_data[i].name,
                                dim_name(slot.register_n, variants[i].register.name)),
                         i))
    ELSE IndexVariants(variants, slot, i + 1, index)

RECURSIVE IndexSlots(_, _, _, _)
\* the loops of one visited register, in the order of UnitSlots
IndexSlots(variants, slots, s, index) ==
    IF s > Len(slots) THEN index
    ELSE IndexSlots(variants, slots, s + 1, IndexVariants(variants, slots[s], 1, index))

\* the closure after collect_variants has returned
IndexCollected(collected, index) ==
    IF collected.tag # "ok"
    THEN [tag |-> collected.tag, kind |-> collected.kind, index |-> index]
    ELSE [tag |-> "ok", kind |-> "",
          index |-> IndexSlots(collected.variants, UnitSlots(collected.variants), 1,
                               index)]

RECURSIVE IndexVisitAll(_, _, _, _, _, _)

IndexVisitNext(dev, peripheral, parent, visits, v, r) ==
    IF r.tag # "ok" THEN r
    ELSE IndexVisitAll(dev, peripheral, parent, visits, v + 1, r.index)

\* the traversal calling the closure; the first failure ends it
IndexVisitAll(dev, peripheral, parent, visits, v, index) ==
    IF v > Len(visits) THEN [tag |-> "ok", kind |-> "", index |-> index]
    ELSE IndexVisitNext(dev, peripheral, parent, visits, v,
             IndexCollected(collect_variants(dev, peripheral, parent,
                                             visits[v].clusters, visits[v].register),
                            index))

GeneratePeripheralIndexWith(dev, peripheral, parent, index) ==
    IF parent.tag # "ok" THEN [tag |-> "err", kind |-> parent.kind, index |-> index]
    ELSE IndexVisitAll(dev, peripheral, parent.val,
                       traverse_peripheral_registers(peripheral, parent.val), 1, index)

generate_peripheral_index(dev, peripheral, index) ==
    GeneratePeripheralIndexWith(dev, peripheral, Peripheral_derived_from(peripheral, dev),
                                index)

\* position of the peripheral whose map key is the string key, 0 when none
PeripheralAt(dev, key) ==
    IF \E p \in 1..Len(dev.peripherals) : Join(dev.peripherals[p].name) = key
    THEN CHOOSE p \in 1..Len(dev.peripherals) : Join(dev.peripherals[p].name) = key
    ELSE 0

\* the lines of one pub mod: "!" stands before a name that is not primary
TokenLines(entry) ==
    [r \in 1..Len(entry.registers) |->
        [peripheral_name |-> entry.name, name |-> entry.registers[r].name,
         marked |-> ~entry.registers[r].primary]]

RECURSIVE generate_reg_tokens(_, _, _, _)
\* generate_reg_tokens from entry e of the index on: device.peripherals[name]
\* panics for a name that is no key, derived_from may fail
generate_reg_tokens(dev, index, e, tokens) ==
    IF e > Len(index) THEN [tag |-> "ok", kind |-> "", tokens |-> tokens]
    ELSE IF PeripheralAt(dev, index[e].name) = 0
    THEN [tag |-> "panic", kind |-> "IndexMap: key not found", tokens |-> tokens]
    ELSE IF Peripheral_derived_from(dev.peripherals[PeripheralAt(dev, index[e].name)],
                                    dev).tag # "ok"
    THEN [tag |-> "err",
          kind |-> Peripheral_derived_from(
                       dev.peripherals[PeripheralAt(dev, index[e].name)], dev).kind,
          tokens |-> tokens]
    ELSE generate_reg_tokens(dev, index, e + 1, tokens \o TokenLines(index[e]))

\* what generate_index does with the result of trace_variants
IndexTraced(traced) ==
    IF traced.tag = "ok"
    THEN /\ device' = traced.device
         /\ pc' = "index loop"
         /\ idx' = 1
         /\ ret' = [tag |-> "running", kind |-> "", index |-> <<>>, tokens |-> <<>>]
    ELSE /\ ret' = [tag |-> traced.tag, kind |-> traced.kind, index |-> <<>>,
                    tokens |-> <<>>]
         /\ pc' = "index done"
         /\ UNCHANGED <<device, idx>>

\* generate_index on the same device, after the runs of generate_regs:
\* normalize(&mut device); trace_variants(&mut device, &self.exclude_peripherals)?
IndexTraceVariants ==
    /\ pc = "end"
    /\ IndexTraced(trace_variants(normalize(input), exclude))
    /\ UNCHANGED <<exclude, pool_size, pool_number, generated, output, result, runs,
                   input>>

\* the continue of the peripheral loop of generate_index
IndexSkipExcluded ==
    /\ pc = "index loop"
    /\ idx <= Len(device.peripherals)
    /\ device.peripherals[idx].name \in Range(exclude)
    /\ idx' = idx + 1
    /\ UNCHANGED <<device, exclude, pool_size, pool_number, pc, generated, output,
                   result, runs, input, ret>>

\* what the peripheral loop does with the result r of generate_peripheral_index
Indexed(r) ==
    IF r.tag = "ok"
    THEN /\ ret' = [ret EXCEPT !.index = r.index]
         /\ idx' = idx + 1
         /\ UNCHANGED pc
    ELSE /\ ret' = [tag |-> r.tag, kind |-> r.kind, index |-> r.index, tokens |-> <<>>]
         /\ pc' = "index done"
         /\ UNCHANGED idx

\* one call of generate_peripheral_index from the peripheral loop
GeneratePeripheralIndex ==
    /\ pc = "index loop"
    /\ idx <= Len(device.peripherals)
    /\ device.peripherals[idx].name \notin Range(exclude)
    /\ Indexed(generate_peripheral_index(device, device.peripherals[idx], ret.index))
    /\ UNCHANGED <<device, exclude, pool_size, pool_number, generated, output, result,
                   runs, input>>

\* what generate_index returns after generate_reg_tokens returned r
Tokens(r) == ret' = [tag |-> r.tag, kind |-> r.kind, index |-> ret.index,
                     tokens |-> r.tokens]

\* generate_reg_tokens(..)? and the Ok(()) that ends generate_index
GenerateRegTokens ==
    /\ pc = "index loop"
    /\ idx > Len(device.peripherals)
    /\ Tokens(generate_reg_tokens(device, ret.index, 1, <<>>))
    /\ pc' = "index done"
    /\ UNCHANGED <<device, exclude, pool_size, pool_number, idx, generated, output,
                   result, runs, input>>

Next ==
    \/ TraceVariants \/ SkipExcluded \/ GeneratePeripheral \/ Return \/ NextRun
    \/ IndexTraceVariants \/ IndexSkipExcluded \/ GeneratePeripheralIndex
    \/ GenerateRegTokens

Spec == Init /\ [][Next]_vars

\* what the variables of the register pass hold while another operation runs
PipelineIdle ==
    /\ device = Device(<<>>)
    /\ exclude = <<>>
    /\ pool_size = 1
    /\ pool_number = 0
    /\ idx = 0
    /\ generated = {}
    /\ output = <<>>
    /\ result = Running
    /\ runs = <<>>

pipeline_vars ==
    <<device, exclude, pool_size, pool_number, idx, generated, output, result, runs>>

-----------------------------------------------------------------------------
(* parse_int called on one string.  A string is its sequence of            *)
(* characters.                                                             *)

MaxDigits == 2

Prefixes == {<<>>, <<"0">>, <<"0", "x">>, <<"0", "X">>}

BodyChars == {"0", "1", "7", "8", "9", "a", "F", "g", "+", "-"}

\* the literals of the documentation and the ends of the u32 range
Literals ==
    {<<"0", "x", "1", "A">>, <<"0", "3", "2">>, <<"2", "6">>, <<"0">>,
     <<"0", "x", "Z", "Z">>, <<"0", "x", "+", "1", "A">>,
     <<"4", "2", "9", "4", "9", "6", "7", "2", "9", "5">>,
     <<"4", "2", "9", "4", "9", "6", "7", "2", "9", "6">>,
     <<"0", "x", "F", "F", "F", "F", "F", "F", "F", "F">>,
     <<"0", "X", "1", "0", "0", "0", "0", "0", "0", "0", "0">>,
     <<"0", "3", "7", "7", "7", "7", "7", "7", "7", "7", "7", "7">>,
     <<"0", "4", "0", "0", "0", "0", "0", "0", "0", "0", "0", "0">>}

ParseInputs ==
    Literals \cup {prefix \o body : prefix \in Prefixes,
                                    body \in StringsUpTo(BodyChars, MaxDigits)}

InitParse ==
    /\ PipelineIdle
    /\ input \in ParseInputs
    /\ pc = "parse"
    /\ ret = NoCall

\* deserialize_int: parse_int(&s)
ParseInt ==
    /\ pc = "parse"
    /\ ret' = parse_int(input)
    /\ pc' = "parsed"
    /\ UNCHANGED <<pipeline_vars, input>>

NextParse == ParseInt

SpecParse == InitParse /\ [][NextParse]_vars

-----------------------------------------------------------------------------
(* Register::size, Register::reset_value and Register::access called on    *)
(* one register.  Each level of the chain has its own value, so that the   *)
(* level a result came from can be told.                                   *)

MaxFields == 2

Opt(v) == {None, Some(v)}

FieldAccesses == {None, Some("read-only"), Some("read-write")}

FieldLists ==
    {[i \in 1..Len(accesses) |-> Field(<<"F", ToString(i)>>, accesses[i])] :
        accesses \in StringsUpTo(FieldAccesses, MaxFields)}

AttrRegisters ==
    {[Register(<<"R0">>, 0) EXCEPT !.size = s, !.reset_value = r, !.access = a,
                                   !.fields = f] :
        s \in Opt(8), r \in Opt(1), a \in Opt("read-only"), f \in FieldLists}

AttrPeripherals ==
    {[Peripheral(PB, 0, <<>>) EXCEPT !.size = s, !.reset_value = r, !.access = a,
                                     !.derived_from = d] :
        s \in Opt(16), r \in Opt(2), a \in Opt("write-only"), d \in Opt(PA)}

AttrParents ==
    {[Peripheral(PA, 0, <<>>) EXCEPT !.size = s, !.reset_value = r, !.access = a] :
        s \in Opt(32), r \in Opt(3), a \in Opt("read-write")}

AttrDevices(peripheral) ==
    {[Device(IF peripheral.derived_from = <<>> THEN <<peripheral>>
             ELSE <<parent, peripheral>>)
         EXCEPT !.size = s, !.reset_value = r, !.access = a] :
        parent \in IF peripheral.derived_from = <<>> THEN {Peripheral(PA, 0, <<>>)}
                   ELSE AttrParents,
        s \in Opt(64), r \in Opt(4), a \in Opt("writeOnce")}

InitAttr ==
    /\ PipelineIdle
    /\ \E register \in AttrRegisters, peripheral \in AttrPeripherals :
           \E dev \in AttrDevices(peripheral) :
               input = [register |-> register, peripheral |-> peripheral,
                        device |-> dev]
    /\ pc = "attr"
    /\ ret = NoCall

\* the parent generate_peripheral hands to size, reset_value and access
InputParent == Peripheral_derived_from(input.peripheral, input.device).val

RegisterSize ==
    /\ pc = "attr"
    /\ ret' = [op |-> "size",
               val |-> Register_size(input.register, input.device, input.peripheral,
                                     InputParent)]
    /\ pc' = "attr done"
    /\ UNCHANGED <<pipeline_vars, input>>

RegisterResetValue ==
    /\ pc = "attr"
    /\ ret' = [op |-> "reset_value",
               val |-> Register_reset_value(input.register, input.device,
                                            input.peripheral, InputParent)]
    /\ pc' = "attr done"
    /\ UNCHANGED <<pipeline_vars, input>>

RegisterAccess ==
    /\ pc = "attr"
    /\ ret' = [op |-> "access",
               val |-> Register_access(input.register, input.device, input.peripheral,
                                       InputParent)]
    /\ pc' = "attr done"
    /\ UNCHANGED <<pipeline_vars, input>>

NextAttr == RegisterSize \/ RegisterResetValue \/ RegisterAccess

SpecAttr == InitAttr /\ [][NextAttr]_vars

-----------------------------------------------------------------------------
(* traverse_peripheral_registers called on one peripheral and its parent.  *)
(* The description of a register tells whose tree it is of.                *)

MaxNodes == 2

Leaves(owner) ==
    {[Register(<<n>>, 0) EXCEPT !.description = owner] : n \in {"R1", "R2"}}

DistinctNames(tree) ==
    \A i, j \in 1..Len(tree) : tree[i].name = tree[j].name => i = j

LeafTrees(owner) == {t \in StringsUpTo(Leaves(owner), MaxNodes) : DistinctNames(t)}

Nodes(owner) ==
    Leaves(owner)
    \cup {Cluster(<<"C1">>, 0, sub) : sub \in LeafTrees(owner)}
    \cup {Cluster(<<"C1">>, 0, <<Cluster(<<"C2">>, 0, sub)>>) :
             sub \in {t \in LeafTrees(owner) : Len(t) = 1}}

TreesOf(owner) == {t \in StringsUpTo(Nodes(owner), MaxNodes) : DistinctNames(t)}

TraverseInputs ==
    {[peripheral |-> Peripheral(PB, 0, own), parent |-> parent] :
        own \in TreesOf("own"),
        parent \in {None} \cup {Some(Peripheral(PA, 0, t)) : t \in TreesOf("parent")}}

InitTraverse ==
    /\ PipelineIdle
    /\ input \in TraverseInputs
    /\ pc = "traverse"
    /\ ret = NoCall

Traverse ==
    /\ pc = "traverse"
    /\ ret' = [calls |-> traverse_peripheral_registers(input.peripheral, input.parent)]
    /\ pc' = "traversed"
    /\ UNCHANGED <<pipeline_vars, input>>

NextTraverse == Traverse

SpecTraverse == InitTraverse /\ [][NextTraverse]_vars

-----------------------------------------------------------------------------
(* Properties of the register pass (specification Spec)                    *)

RECURSIVE IsSubsequence(_, _)
\* a can be had from b by leaving elements of b out
IsSubsequence(a, b) ==
    IF a = <<>> THEN TRUE
    ELSE IF b = <<>> THEN FALSE
    ELSE IF a[1] = b[1] THEN IsSubsequence(Tail(a), Tail(b))
    ELSE IsSubsequence(a, Tail(b))

Count(s, x) == Cardinality({i \in 1..Len(s) : s[i] = x})

\* the units some run of the recorded runs wrote
UnitsWritten == UNION {Range(runs[k].output) : k \in 1..Len(runs)}

\* C1: striping partition.  Once the unstriped run (runs[1]) and the run of
\* every pool_number of 1..pool_size (runs[2..]) have ended on the same device,
\* every unit is written by the pools together as often as by the unstriped
\* run (so a unit the unstriped run writes once is written by exactly one pool,
\* and the pools write nothing else), and the output of each pool is a
\* subsequence of the unstriped output.
C1_StripingPartition ==
    pc = "end" =>
        /\ \A k \in 2..Len(runs) : IsSubsequence(runs[k].output, runs[1].output)
        /\ \A u \in UnitsWritten :
               Count(runs[1].output, u)
               = SeqSum([k \in 1..(Len(runs) - 1) |-> Count(runs[k + 1].output, u)])

\* three pools, an unstriped run that ended well, and two pools that each
\* wrote a unit
C1_Witness ==
    /\ pc = "end"
    /\ pool_size = 3
    /\ runs[1].result.tag = "ok"
    /\ Len(runs[1].output) >= 3
    /\ \E j, k \in 2..Len(runs) :
           j # k /\ runs[j].output # <<>> /\ runs[k].output # <<>>

\* the parent of a peripheral of the device, none when derived_from fails
ParentOf(dev, peripheral) ==
    IF Peripheral_derived_from(peripheral, dev).tag = "ok"
    THEN Peripheral_derived_from(peripheral, dev).val
    ELSE None

\* the calls the traversal makes for a peripheral of the device
VisitsOf(dev, peripheral) ==
    traverse_peripheral_registers(peripheral, ParentOf(dev, peripheral))

\* a location none of whose clusters and whose register is no array
NoDim(visit) ==
    /\ visit.register.dim = <<>>
    /\ \A i \in 1..Len(visit.clusters) : visit.clusters[i].dim = <<>>

\* the generated name of a location without arrays
LocationName(visit) ==
    [i \in 1..Len(visit.clusters) |-> Join(visit.clusters[i].name)]
    \o <<Join(visit.register.name)>>

\* the unit holds the instance of the location in the peripheral
UnitHolds(unit, peripheral, visit) ==
    \E m \in 1..Len(unit) :
        /\ unit[m].peripheral_name = Join(peripheral.name)
        /\ unit[m].name = LocationName(visit)

\* one unit of the output holds the instance of v1 in p1 and that of v2 in p2,
\* and no other unit holds either
OneSharedUnit(out, p1, v1, p2, v2) ==
    \E u \in 1..Len(out) :
        /\ UnitHolds(out[u], p1, v1)
        /\ UnitHolds(out[u], p2, v2)
        /\ \A w \in 1..Len(out) :
               (UnitHolds(out[w], p1, v1) \/ UnitHolds(out[w], p2, v2)) => w = u

\* C2: deduplication across alias peripherals.  When the unstriped register
\* pass has ended well on a device where P2 declares alternate_peripheral = P1,
\* in either order, then for every register of P1 and register of P2 with the
\* same address-offset sum exactly one unit holds both instances and no other
\* unit holds either of them.
C2_AliasDeduplication ==
    (pc = "done" /\ pool_number = 0 /\ result.tag = "ok" /\ exclude = <<>>) =>
        \A i, j \in 1..Len(input.peripherals) :
            input.peripherals[i].alternate_peripheral
                = Some(input.peripherals[j].name) =>
                \A v1 \in Range(VisitsOf(input, input.peripherals[j])),
                   v2 \in Range(VisitsOf(input, input.peripherals[i])) :
                    (/\ NoDim(v1) /\ NoDim(v2)
                     /\ OffsetSum(v1.clusters, v1.register)
                        = OffsetSum(v2.clusters, v2.register)) =>
                        OneSharedUnit(output, input.peripherals[j], v1,
                                      input.peripherals[i], v2)

\* entry i of the map lists entry j among its variants
Lists(map, i, j) == map[j].name \in Range(map[i].variants)

\* the alias relation of the entries of a map that were traced; Alt(x) is the
\* alias entry x declares and IsTraced(x) tells whether entry x was traced
AliasSymmetric(map, Alt(_), IsTraced(_)) ==
    \A x, y \in 1..Len(map) :
        (IsTraced(map[x]) /\ Alt(map[x]) = Some(map[y].name)) =>
            /\ Lists(map, x, y)
            /\ Lists(map, y, x)
            /\ \A z \in (x + 1)..Len(map) :
                   (IsTraced(map[z]) /\ Alt(map[z]) = Some(map[y].name)) =>
                       Lists(map, z, x) /\ Lists(map, x, z)

ClusterAlternate(node) == IF node.kind = "cluster" THEN node.alternate_cluster ELSE None

PeripheralAlternate(peripheral) == peripheral.alternate_peripheral

IsCluster(node) == node.kind = "cluster"

NotExcluded(peripheral) == peripheral.name \notin Range(exclude)

\* C3: alias symmetry after tracing.  Once trace_variants has returned, for
\* sibling clusters X, Y with X.alternate_cluster = Y each is in the variants
\* of the other, and a later sibling Z with the same alternate_cluster and X
\* are in the variants of each other; the same for the peripherals linked by
\* alternate_peripheral.
C3_AliasSymmetry ==
    pc = "loop" =>
        /\ AliasSymmetric(device.peripherals, PeripheralAlternate, NotExcluded)
        /\ \A p \in 1..Len(device.peripherals) :
               NotExcluded(device.peripherals[p]) =>
                   AliasSymmetric(device.peripherals[p].registers, ClusterAlternate,
                                  IsCluster)

\* the peripheral generate_peripheral is about to be called on
AtPeripheral ==
    /\ pc = "loop"
    /\ idx <= Len(device.peripherals)
    /\ NotExcluded(device.peripherals[idx])
    /\ Peripheral_derived_from(device.peripherals[idx], device).tag = "ok"

CurrentVisits == VisitsOf(device, device.peripherals[idx])

\* what the closure of generate_peripheral returns for a visit; it does not
\* depend on the units generated before
VisitResult(visit) ==
    VisitRegister(device, device.peripherals[idx],
                  ParentOf(device, device.peripherals[idx]), visit,
                  [generated |-> {}, counter |-> 0, output |-> <<>>], 1, 1)

\* the traversal gets as far as visit n: no earlier call of the closure failed
Reached(n) == \A m \in 1..(n - 1) : VisitResult(CurrentVisits[m]).tag = "ok"

CurrentClass(visit) ==
    collect_variants(device, device.peripherals[idx],
                     ParentOf(device, device.peripherals[idx]),
                     visit.clusters, visit.register)

\* no level of the chain of the variant defines the size, or none the reset value
MissingAttribute(variant) ==
    \/ /\ variant.register.size = <<>>
       /\ variant.peripheral.size = <<>>
       /\ ParentSize(ParentOf(device, variant.peripheral)) = <<>>
       /\ device.size = <<>>
    \/ /\ variant.register.reset_value = <<>>
       /\ variant.peripheral.reset_value = <<>>
       /\ ParentResetValue(ParentOf(device, variant.peripheral)) = <<>>
       /\ device.reset_value = <<>>

\* the visited register, or a member of its class, misses an attribute
MissingInClass(visit) ==
    \/ MissingAttribute(Variant(device.peripherals[idx], visit.clusters, visit.register))
    \/ /\ CurrentClass(visit).tag = "ok"
       /\ \E k \in 1..Len(CurrentClass(visit).variants) :
              MissingAttribute(CurrentClass(visit).variants[k])

\* C5: a missing attribute is an error.  For every register the register pass
\* visits: if it, or a member of its equivalence class, has no size (or no
\* reset value) at the register, its peripheral, the derived_from parent of
\* that peripheral and the device, the pass returns an error.
C5_MissingAttributeIsError ==
    AtPeripheral =>
        \A n \in 1..Len(CurrentVisits) :
            (Reached(n) /\ MissingInClass(CurrentVisits[n])) =>
                VisitResult(CurrentVisits[n]).tag = "err"

\* C6: the equivalence class is address-consistent.  Whenever collect_variants
\* returns for a visited location, the list is not empty, its first element is
\* the location itself and every other element has the address-offset sum of
\* the location.
C6_ClassAddressConsistent ==
    AtPeripheral =>
        \A n \in 1..Len(CurrentVisits) :
            CurrentClass(CurrentVisits[n]).tag = "ok" =>
                /\ CurrentClass(CurrentVisits[n]).variants # <<>>
                /\ CurrentClass(CurrentVisits[n]).variants[1].peripheral
                   = device.peripherals[idx]
                /\ CurrentClass(CurrentVisits[n]).variants[1].clusters
                   = CurrentVisits[n].clusters
                /\ CurrentClass(CurrentVisits[n]).variants[1].register
                   = CurrentVisits[n].register
                /\ \A k \in 2..Len(CurrentClass(CurrentVisits[n]).variants) :
                       OffsetSum(CurrentClass(CurrentVisits[n]).variants[k].clusters,
                                 CurrentClass(CurrentVisits[n]).variants[k].register)
                       = OffsetSum(CurrentVisits[n].clusters, CurrentVisits[n].register)

\* C7: cross-peripheral equivalence uses absolute addresses.  Every member of
\* a class that is of another peripheral than the visited one has the absolute
\* address (base_address plus offset sum) of the visited location.
C7_CrossPeripheralAbsolute ==
    AtPeripheral =>
        \A n \in 1..Len(CurrentVisits) :
            CurrentClass(CurrentVisits[n]).tag = "ok" =>
                \A k \in 2..Len(CurrentClass(CurrentVisits[n]).variants) :
                    CurrentClass(CurrentVisits[n]).variants[k].peripheral.name
                        # device.peripherals[idx].name =>
                        CurrentClass(CurrentVisits[n]).variants[k].peripheral.base_address
                        + OffsetSum(CurrentClass(CurrentVisits[n]).variants[k].clusters,
                                    CurrentClass(CurrentVisits[n]).variants[k].register)
                        = device.peripherals[idx].base_address
                          + OffsetSum(CurrentVisits[n].clusters, CurrentVisits[n].register)

-----------------------------------------------------------------------------
(* Properties of the traversal (specification SpecTraverse)                *)

RECURSIVE RegistersOf(_, _)
\* the registers of a tree with the names of their ancestor clusters, path
\* the names of the clusters above the tree
RegistersOf(path, tree) ==
    UNION {IF tree[i].kind = "register"
           THEN {[key |-> <<path, tree[i].name>>, register |-> tree[i]]}
           ELSE RegistersOf(Append(path, tree[i].name), tree[i].register) :
           i \in 1..Len(tree)}

\* call n of the traversal as a key and a register
CallOf(n) ==
    [key |-> PathKey(ret.calls[n].clusters, ret.calls[n].register),
     register |-> ret.calls[n].register]

OwnRegisters == RegistersOf(<<>>, input.peripheral.registers)

ParentRegisters ==
    IF input.parent = <<>> THEN {} ELSE RegistersOf(<<>>, input.parent[1].registers)

\* C4: inheritance shadowing in traversal.  f is called for every register of
\* the own tree of the peripheral, at every cluster depth, before it is called
\* for any register of the tree of the parent; no key is visited twice, so a
\* register the peripheral and its parent both define is visited once, as the
\* register of the peripheral.
C4_InheritanceShadowing ==
    pc = "traversed" =>
        /\ \A r \in OwnRegisters : \E n \in 1..Len(ret.calls) : CallOf(n) = r
        /\ \A n \in 1..Len(ret.calls) : CallOf(n) \in OwnRegisters \cup ParentRegisters
        /\ \A m, n \in 1..Len(ret.calls) :
               (CallOf(m) \in ParentRegisters /\ CallOf(n) \in OwnRegisters) => n < m
        /\ \A m, n \in 1..Len(ret.calls) : CallOf(m).key = CallOf(n).key => m = n
        /\ \A r \in OwnRegisters :
               \A n \in 1..Len(ret.calls) : CallOf(n).key = r.key => CallOf(n) = r

\* the peripheral and its parent both define R1, the peripheral has a register
\* in a cluster, and the parent has a register the peripheral has not
C4_Witness ==
    /\ pc = "traversed"
    /\ \E own \in OwnRegisters, inherited \in ParentRegisters :
           own.key = <<<<>>, <<"R1">>>> /\ inherited.key = own.key
    /\ \E own \in OwnRegisters : own.key[1] # <<>>
    /\ \E n \in 1..Len(ret.calls) : CallOf(n) \in ParentRegisters

-----------------------------------------------------------------------------
(* Properties of the fallback chain (specification SpecAttr)               *)

\* the parent the peripheral derives from, as an Option
DerivedParent ==
    IF input.peripheral.derived_from = <<>> THEN None
    ELSE Some(input.device.peripherals[1])

\* the levels of the chain in the order register, peripheral, parent, device
SizeLevels ==
    <<input.register.size, input.peripheral.size,
      IF DerivedParent = <<>> THEN None ELSE DerivedParent[1].size,
      input.device.size>>

ResetValueLevels ==
    <<input.register.reset_value, input.peripheral.reset_value,
      IF DerivedParent = <<>> THEN None ELSE DerivedParent[1].reset_value,
      input.device.reset_value>>

AccessLevels ==
    <<input.register.access, input.peripheral.access,
      IF DerivedParent = <<>> THEN None ELSE DerivedParent[1].access,
      input.device.access>>

\* level k is defined and no level before it is
FirstDefinedAt(levels, k) ==
    levels[k] # <<>> /\ \A j \in 1..(k - 1) : levels[j] = <<>>

\* val is the value of the first defined level, or an error when there is none
IsFirstDefined(levels, val) ==
    \/ \E k \in 1..4 : /\ FirstDefinedAt(levels, k)
                       /\ val = [tag |-> "ok", val |-> levels[k][1]]
    \/ /\ \A k \in 1..4 : levels[k] = <<>>
       /\ val.tag = "err"

\* C8: fallback chain order.  Register::size and Register::reset_value return
\* the value of the first defined level in the order register, peripheral,
\* derived_from parent, device, and fail only when no level is defined.
C8_FallbackChainOrder ==
    /\ (pc = "attr done" /\ ret.op = "size") => IsFirstDefined(SizeLevels, ret.val)
    /\ (pc = "attr done" /\ ret.op = "reset_value") =>
           IsFirstDefined(ResetValueLevels, ret.val)

\* size is called where only the parent and the device define one, and the
\* size of the parent is returned
C8_Witness ==
    /\ pc = "attr done"
    /\ ret.op = "size"
    /\ SizeLevels = <<None, None, Some(32), Some(64)>>
    /\ ret.val = [tag |-> "ok", val |-> 32]

\* every field has the access Some(a)
FieldsAgreeOn(a) ==
    /\ input.register.fields # <<>>
    /\ \A i \in 1..Len(input.register.fields) :
           input.register.fields[i].access = Some(a)

\* C9: access inference from fields.  When a level of the chain defines an
\* access, Register::access returns the first defined one whatever the fields
\* say; when none does, it returns Some(a) exactly when the register has at
\* least one field and every field has access Some(a), and None otherwise.
C9_AccessInference ==
    (pc = "attr done" /\ ret.op = "access") =>
        /\ \A k \in 1..4 : FirstDefinedAt(AccessLevels, k) => ret.val = AccessLevels[k]
        /\ (\A k \in 1..4 : AccessLevels[k] = <<>>) =>
               /\ \A a \in {"read-only", "read-write"} :
                      ret.val = Some(a) <=> FieldsAgreeOn(a)
               /\ ret.val # <<>> => ret.val[1] \in {"read-only", "read-write"}

\* no level defines an access, two fields agree, and their access is returned
C9_Witness ==
    /\ pc = "attr done"
    /\ ret.op = "access"
    /\ \A k \in 1..4 : AccessLevels[k] = <<>>
    /\ Len(input.register.fields) = 2
    /\ FieldsAgreeOn("read-write")
    /\ ret.val = Some("read-write")

-----------------------------------------------------------------------------
(* Properties of parse_int (specification SpecParse)                       *)

\* the radix the prefix of the string stands for
DetectedRadix(src) ==
    IF StartsWith(src, <<"0", "x">>) \/ StartsWith(src, <<"0", "X">>) THEN 16
    ELSE IF StartsWith(src, <<"0">>) /\ Len(src) > 1 THEN 8
    ELSE 10

\* the characters after the prefix
DigitsOf(src) ==
    IF DetectedRadix(src) = 16 THEN SubSeq(src, 3, Len(src))
    ELSE IF DetectedRadix(src) = 8 THEN SubSeq(src, 2, Len(src))
    ELSE src

AllDigits(digits, radix) ==
    \A i \in 1..Len(digits) : DigitVal(digits[i]) >= 0 /\ DigitVal(digits[i]) < radix

RECURSIVE WideValue(_, _, _)
\* the number the digits stand for, as <<hi, lo>> with lo below 2^16 and hi as
\* large as it gets: the number is hi * 2^16 + lo
WideValue(digits, radix, acc) ==
    IF digits = <<>> THEN acc
    ELSE WideValue(Tail(digits), radix,
                   <<acc[1] * radix + (acc[2] * radix + DigitVal(digits[1])) \div Limb,
                     (acc[2] * radix + DigitVal(digits[1])) % Limb>>)

\* C10: integer literal parsing.  parse_int returns the number the digits after
\* the prefix stand for in the detected radix; it returns an error when a
\* character after the prefix is no digit of that radix, when no digit is left
\* after the prefix, or when the number is greater than 2^32 - 1.
C10_ParseInt ==
    pc = "parsed" =>
        IF /\ DigitsOf(input) # <<>>
           /\ AllDigits(DigitsOf(input), DetectedRadix(input))
           /\ WideValue(DigitsOf(input), DetectedRadix(input), <<0, 0>>)[1] < Limb
        THEN ret = [tag |-> "ok",
                    val |-> WideValue(DigitsOf(input), DetectedRadix(input), <<0, 0>>)]
        ELSE ret.tag = "err"

-----------------------------------------------------------------------------
(* DimGroup::dim_group of lib.rs called on one array descriptor.  The name *)
(* is its token sequence; dim_index is held as the labels its split(',')   *)
(* yields.  Labels are plain text and the products stay far below 2^32.    *)

MaxDim == 3

\* str::replace on a token sequence: every token equal to from becomes to
Replace(tokens, from, to) ==
    [i \in 1..Len(tokens) |-> IF tokens[i] = from THEN to ELSE tokens[i]]

\* DimGroup::dim: self.dim.and_then(|dim| self.dim_increment.map(..))
DimGroup_dim(self) ==
    IF self.dim # None /\ self.dim_increment # None
    THEN Some(<<self.dim[1], self.dim_increment[1]>>)
    ELSE None

DimIndices_one_based(self, count) ==
    IF self.dim_index # None THEN self.dim_index[1]
    ELSE [i \in 1..count |-> ToString(i)]

\* the labels: dim_index split at the commas, or else the decimals 0..count-1
DimIndices(self, count) ==
    IF self.dim_index # None THEN self.dim_index[1]
    ELSE [i \in 1..count |-> ToString(i - 1)]

\* one pair of dim_group: (name.replace("[%s]", "_idx").replace("%s", idx), i * step)
DimPair(self, i, label, step) ==
    [name |-> Join(Replace(Replace(self.name, "[%s]", "_" \o label), "%s", label)),
     delta |-> i * step]

DimPairs(self, indices, step) ==
    [i \in 1..Len(indices) |-> DimPair(self, i - 1, indices[i], step)]

dim_group(self) ==
    IF DimGroup_dim(self) # None /\ DimGroup_dim(self)[1][1] > 1
    THEN DimPairs(self, DimIndices(self, DimGroup_dim(self)[1][1]),
                  DimGroup_dim(self)[1][2])
    ELSE <<[name |-> Join(self.name), delta |-> 0]>>

DimNames ==
    {<<"FOO">>, <<"FOO", "[%s]">>, <<"FOO", "%s">>, <<"FOO", "[%s]", "_BAR">>,
     <<"P", "%s", "_", "%s">>}

DimLabels == {"A", "B", "7"}

DimLabelLists == {labels \in StringsUpTo(DimLabels, MaxDim) : labels # <<>>}

InitDim ==
    /\ PipelineIdle
    /\ \E name \in DimNames, dim \in {None} \cup {Some(n) : n \in 0..MaxDim},
          dim_increment \in {None, Some(0), Some(4)},
          dim_index \in {None} \cup {Some(labels) : labels \in DimLabelLists} :
          input = [name |-> name, dim |-> dim, dim_increment |-> dim_increment,
                   dim_index |-> dim_index]
    /\ pc = "dim"
    /\ ret = NoCall

DimGroupCall ==
    /\ pc = "dim"
    /\ ret' = dim_group(input)
    /\ pc' = "dim done"
    /\ UNCHANGED <<pipeline_vars, input>>

\* a device with one peripheral and one register, in which the array
\* descriptor self is that of the register, of a cluster around it or of the
\* peripheral
ArrayDevice(kind, self) ==
    [Device(<<
        CASE kind = "register" ->
                 Peripheral(PA, 0, <<[Register(self.name, 0) EXCEPT
                                         !.dim = self.dim,
                                         !.dim_increment = self.dim_increment]>>)
          [] kind = "cluster" ->
                 Peripheral(PA, 0, <<[Cluster(self.name, 0, <<R0>>) EXCEPT
                                         !.dim = self.dim,
                                         !.dim_increment = self.dim_increment]>>)
          [] kind = "peripheral" ->
                 [Peripheral(self.name, 0, <<R0>>) EXCEPT
                     !.dim = self.dim, !.dim_increment = self.dim_increment]>>)
        EXCEPT !.size = Some(32), !.reset_value = Some(0)]

\* generate_peripheral on the one peripheral of the device, nothing generated
\* before, every unit written
EmitArrayOf(dev) == generate_peripheral(dev, dev.peripherals[1], {}, <<>>, 1, 1)

\* the register pass on an array of one of the three kinds
EmitArray ==
    /\ pc = "dim"
    /\ \E kind \in {"register", "cluster", "peripheral"} :
          ret' = [kind |-> kind, result |-> EmitArrayOf(ArrayDevice(kind, input))]
    /\ pc' = "emitted"
    /\ UNCHANGED <<pipeline_vars, input>>

NextDim == DimGroupCall \/ EmitArray

SpecDim == InitDim /\ [][NextDim]_vars

RECURSIVE Substituted(_, _)
\* the template with "_label" for every "[%s]" and the label for every "%s"
Substituted(tokens, label) ==
    IF tokens = <<>> THEN ""
    ELSE (IF Head(tokens) = "[%s]" THEN "_" \o label
          ELSE IF Head(tokens) = "%s" THEN label
          ELSE Head(tokens)) \o Substituted(Tail(tokens), label)

\* the pairs of an array whose labels are given, strided by position
StridedPairs(labels, step) ==
    [i \in 1..Len(labels) |->
        [name |-> Substituted(input.name, labels[i]), delta |-> (i - 1) * step]]

EmittedPairs ==
    [u \in 1..Len(ret.result.st.output) |->
        [name |-> IF ret.kind = "peripheral"
                  THEN ret.result.st.output[u][1].peripheral_name
                  ELSE ret.result.st.output[u][1].name[1],
         delta |-> ret.result.st.output[u][1].address]]

\* C20: the names of the written instances follow dim_group.  For a
\* register, cluster or peripheral array with dim > 1 and a dim_increment,
\* the register pass writes one instance for each pair dim_group gives for
\* the same name template, dim and dim_increment, in that order, under the
\* name of the pair and at the address delta of the pair; so the instances
\* have dim distinct names, also for a template with a bare "%s" or with
\* "[%s]" before its end.
C20_EmitterFollowsDimGroup ==
    (/\ pc = "emitted"
     /\ input.dim # None /\ input.dim[1] > 1
     /\ input.dim_increment # None /\ input.dim_index = None) =>
        /\ ret.result.tag = "ok"
        /\ \A u \in 1..Len(ret.result.st.output) : Len(ret.result.st.output[u]) = 1
        /\ EmittedPairs = dim_group(input)

-----------------------------------------------------------------------------
(* Field bit ranges: device/field.rs.  The element texts of a field are    *)
(* character sequences; a u32 is the limb pair parse_int yields.  An       *)
(* overflowing subtraction or addition panics when the build checks        *)
(* overflow and wraps when it does not.                                    *)

MaxBit == 7

MaxWidth == 4

\* a - b on limb pairs, with the borrow out of the high limb
U32Sub(a, b) ==
    LET lo == a[2] - b[2]
        hi == a[1] - b[1] - (IF lo < 0 THEN 1 ELSE 0)
    IN [overflow |-> hi < 0, val |-> <<(hi + Limb) % Limb, (lo + Limb) % Limb>>]

\* a + b on limb pairs, with the carry out of the high limb
U32Add(a, b) ==
    LET lo == a[2] + b[2]
        hi == a[1] + b[1] + (lo \div Limb)
    IN [overflow |-> hi >= Limb, val |-> <<hi % Limb, lo % Limb>>]

OverflowResult(checks, overflow, val) ==
    IF checks /\ overflow THEN [tag |-> "panic", kind |-> "arithmetic overflow"]
    ELSE [tag |-> "ok", val |-> val]

RangeWidth_exclusive(lsb, msb, checks) ==
    OverflowResult(checks, U32Sub(msb, lsb).overflow, U32Sub(msb, lsb).val)

\* msb - lsb + 1
RangeWidth(lsb, msb, checks) ==
    OverflowResult(checks,
                   U32Sub(msb, lsb).overflow
                       \/ U32Add(U32Sub(msb, lsb).val, <<0, 1>>).overflow,
                   U32Add(U32Sub(msb, lsb).val, <<0, 1>>).val)

MissingBitRange == [tag |-> "panic", kind |-> "bit-range is missing"]

\* Field::bit_offset
Field_bit_offset(self) ==
    IF self.bit_offset # None THEN [tag |-> "ok", val |-> self.bit_offset[1]]
    ELSE IF self.lsb # None THEN [tag |-> "ok", val |-> self.lsb[1]]
    ELSE IF self.bit_range # None THEN [tag |-> "ok", val |-> self.bit_range[1].start]
    ELSE MissingBitRange

\* Field::bit_width
Field_bit_width(self, checks) ==
    IF self.bit_width # None THEN [tag |-> "ok", val |-> self.bit_width[1]]
    ELSE IF self.lsb # None /\ self.msb # None
    THEN RangeWidth(self.lsb[1], self.msb[1], checks)
    ELSE IF self.bit_range # None
    THEN RangeWidth(self.bit_range[1].start, self.bit_range[1].end, checks)
    ELSE MissingBitRange

\* deserialize_int_opt
deserialize_int_opt(s) ==
    IF s = None THEN [tag |-> "ok", val |-> None]
    ELSE IF parse_int(s[1]).tag # "ok" THEN parse_int(s[1])
    ELSE [tag |-> "ok", val |-> Some(parse_int(s[1]).val)]

\* position of the first c in s, 0 when there is none
Find(s, c) ==
    IF \E i \in 1..Len(s) : s[i] = c
    THEN CHOOSE i \in 1..Len(s) : s[i] = c /\ \A j \in 1..(i - 1) : s[j] # c
    ELSE 0

\* split_once(':') of what is between the brackets
SplitOnce(s) ==
    IF Find(s, ":") = 0 THEN None
    ELSE Some(<<SubSeq(s, 1, Find(s, ":") - 1), SubSeq(s, Find(s, ":") + 1, Len(s))>>)

\* strip_prefix('[') and_then strip_suffix(']') and_then split_once(':')
BitRangeParts(s) ==
    IF s = <<>> \/ s[1] # "[" THEN None
    ELSE IF Len(s) < 2 \/ s[Len(s)] # "]" THEN None
    ELSE SplitOnce(SubSeq(s, 2, Len(s) - 1))

\* Ok(parse_int(lsb)?..=parse_int(msb)?)
BitRangeOf(msb, lsb) ==
    IF parse_int(lsb).tag # "ok" THEN parse_int(lsb)
    ELSE IF parse_int(msb).tag # "ok" THEN parse_int(msb)
    ELSE [tag |-> "ok",
          val |-> Some([start |-> parse_int(lsb).val, end |-> parse_int(msb).val])]

\* deserialize_bit_range: a text that is not "[..:..]" deserializes to None
deserialize_bit_range(s) ==
    IF s = None \/ BitRangeParts(s[1]) = None THEN [tag |-> "ok", val |-> None]
    ELSE BitRangeOf(BitRangeParts(s[1])[1][1], BitRangeParts(s[1])[1][2])

FieldOf(bit_offset, bit_width, lsb, msb, bit_range) ==
    IF \E r \in {bit_offset, bit_width, lsb, msb, bit_range} : r.tag # "ok"
    THEN CHOOSE r \in {bit_offset, bit_width, lsb, msb, bit_range} : r.tag # "ok"
    ELSE [tag |-> "ok",
          val |-> [bit_offset |-> bit_offset.val, bit_width |-> bit_width.val,
                   lsb |-> lsb.val, msb |-> msb.val, bit_range |-> bit_range.val]]

\* the derived Deserialize of Field, on the element texts of one field
DeserializeField(element) ==
    FieldOf(deserialize_int_opt(element.bitOffset), deserialize_int_opt(element.bitWidth),
            deserialize_int_opt(element.lsb), deserialize_int_opt(element.msb),
            deserialize_bit_range(element.bitRange))

DecimalDigits == <<"0", "1", "2", "3", "4", "5", "6", "7", "8", "9">>

RECURSIVE Decimal(_)
\* decimal text of a natural number
Decimal(n) ==
    IF n < 10 THEN <<DecimalDigits[n + 1]>>
    ELSE Decimal(n \div 10) \o <<DecimalDigits[(n % 10) + 1]>>

NoElement == [bitOffset |-> None, bitWidth |-> None, lsb |-> None, msb |-> None,
              bitRange |-> None]

\* the element of a field at offset o of width w, in one of its forms
FieldElement(form, o, w) ==
    CASE form = "offset width" ->
             [NoElement EXCEPT !.bitOffset = Some(Decimal(o)),
                               !.bitWidth = Some(Decimal(w))]
      [] form = "lsb msb" ->
             [NoElement EXCEPT !.lsb = Some(Decimal(o)), !.msb = Some(Decimal(o + w - 1))]
      [] form = "bit range" ->
             [NoElement EXCEPT !.bitRange =
                 Some(<<"[">> \o Decimal(o + w - 1) \o <<":">> \o Decimal(o) \o <<"]">>)]
      [] form = "no brackets" ->
             [NoElement EXCEPT !.bitRange =
                 Some(Decimal(o + w - 1) \o <<":">> \o Decimal(o))]
      [] form = "no colon" ->
             [NoElement EXCEPT !.bitRange =
                 Some(<<"[">> \o Decimal(o + w - 1) \o <<"-">> \o Decimal(o) \o <<"]">>)]
      [] form = "bad digit" ->
             [NoElement EXCEPT !.bitRange =
                 Some(<<"[">> \o Decimal(o + w - 1) \o <<":", "x">> \o Decimal(o) \o <<"]">>)]
      [] OTHER -> NoElement

FieldForms == {"offset width", "lsb msb", "bit range"}

BrokenForms == {"no brackets", "no colon", "bad digit", "none"}

InitField ==
    /\ PipelineIdle
    /\ \E form \in FieldForms \cup BrokenForms, o \in 0..MaxBit, w \in 0..MaxWidth :
          /\ form = "offset width" \/ o + w >= 1
          /\ input = [form |-> form, o |-> o, w |-> w,
                      element |-> FieldElement(form, o, w)]
    /\ pc = "field"
    /\ ret = NoCall

\* the field is deserialized
ReadField ==
    /\ pc = "field"
    /\ ret' = DeserializeField(input.element)
    /\ pc' = IF ret'.tag = "ok" THEN "field read" ELSE "field done"
    /\ UNCHANGED <<pipeline_vars, input>>

\* generate_field: field.bit_offset() and then field.bit_width()
FieldBits ==
    /\ pc = "field read"
    /\ \E checks \in BOOLEAN :
          ret' = [bit_offset |-> Field_bit_offset(ret.val),
                  bit_width |-> IF Field_bit_offset(ret.val).tag = "ok"
                                THEN Field_bit_width(ret.val, checks)
                                ELSE NoCall]
    /\ pc' = "field done"
    /\ UNCHANGED <<pipeline_vars, input>>

NextField == ReadField \/ FieldBits

SpecField == InitField /\ [][NextField]_vars

\* C12: a field of width w >= 1 at offset o given as {bit_offset o,
\* bit_width w}, as {lsb o, msb o+w-1} or as bit_range "[o+w-1:o]" has
\* bit_offset() = o and bit_width() = w, whichever form it was given in.
C12_BitRangeNormalization ==
    (pc = "field done" /\ input.form \in FieldForms /\ input.w >= 1) =>
        /\ ret.bit_offset = [tag |-> "ok", val |-> <<0, input.o>>]
        /\ ret.bit_width = [tag |-> "ok", val |-> <<0, input.w>>]

C12_Witness ==
    /\ pc = "field done"
    /\ input.form = "bit range"
    /\ input.element.bitRange = Some(<<"[", "7", ":", "4", "]">>)
    /\ ret.bit_offset.val = <<0, 4>>
    /\ ret.bit_width.val = <<0, 4>>

-----------------------------------------------------------------------------
(* Claims about the output of a run of generate_regs.                      *)

\* C13: when generate_regs returns an error, the run has written no unit to
\* the output.
C13_NoPartialOutput ==
    (pc = "done" /\ result.tag = "err") => output = <<>>

\* positions 1..n whose counter value falls to pool number of size pools
StripeIndices(n, number, size) ==
    SelectSeq([k \in 1..n |-> k], LAMBDA k : k % size = number - 1)

\* the units of a run whose position in the run falls to the pool
StripeOf(units, number, size) ==
    [i \in 1..Len(StripeIndices(Len(units), number, size)) |->
        units[StripeIndices(Len(units), number, size)[i]]]

\* C14: the striping counter runs over the whole device: the k-th unit
\* decision of a run, counted across all peripherals that are not excluded,
\* is written iff k mod pool_size = pool_number - 1, so a pool writes
\* exactly the units standing at those positions of the unstriped run.
C14_DeviceWideCounter ==
    (pc = "end" /\ \A r \in 1..Len(runs) : runs[r].result.tag = "ok") =>
        \A r \in 1..Len(runs) :
            runs[r].output = StripeOf(runs[1].output, runs[r].number, runs[r].size)

\* the map keys of the excluded peripherals, as strings
ExcludedNames == {Join(exclude[i]) : i \in 1..Len(exclude)}

\* no instance of a unit of the output is of an excluded peripheral
NoneExcludedIn(out) ==
    \A u \in 1..Len(out) : \A m \in 1..Len(out[u]) :
        out[u][m].peripheral_name \notin ExcludedNames

\* C15: excluded peripherals never appear.  No unit a run of generate_regs
\* writes and no entry or token line of generate_index carries the name of
\* an excluded peripheral, also when that peripheral declares or is named
\* by an alternate_peripheral; and once trace_variants has returned, the
\* variants of a peripheral that is not excluded name no excluded one.
C15_ExcludedNeverAppear ==
    /\ NoneExcludedIn(output)
    /\ \A k \in 1..Len(runs) : NoneExcludedIn(runs[k].output)
    /\ pc \in {"index loop", "index done"} =>
           /\ \A e \in 1..Len(ret.index) : ret.index[e].name \notin ExcludedNames
           /\ \A t \in 1..Len(ret.tokens) :
                  ret.tokens[t].peripheral_name \notin ExcludedNames
    /\ pc \in {"loop", "index loop"} =>
           \A p \in 1..Len(device.peripherals) :
               NotExcluded(device.peripherals[p]) =>
                   \A v \in 1..Len(device.peripherals[p].variants) :
                       device.peripherals[p].variants[v] \notin Range(exclude)

\* the excluded PA is named by the alternate_peripheral of two peripherals
\* that are written and indexed as aliases of each other
C15_Witness ==
    /\ pc = "index done"
    /\ exclude = <<PA>>
    /\ \E p \in 1..Len(input.peripherals) :
           /\ input.peripherals[p].alternate_peripheral = Some(PA)
           /\ device.peripherals[p].variants # <<>>
    /\ ret.tag = "ok" /\ ret.tokens # <<>>
    /\ runs[1].result.tag = "ok" /\ runs[1].output # <<>>

-----------------------------------------------------------------------------
(* for_each_clusters_combination called on one list of variants, as        *)
(* collect_variants may return it: up to two variants below up to two      *)
(* cluster arrays each.  The cluster at depth j is named so that its       *)
(* instance name tells its index.                                          *)

MaxClusterDim == 3

CombineDims == {None} \cup {Some(n) : n \in 1..MaxClusterDim}

\* the cluster array at depth j of a path, of the given dim
CombineCluster(j, dim) ==
    [Cluster(<<IF j = 1 THEN "C" ELSE "D", "[%s]">>, 0, <<>>) EXCEPT
        !.dim = dim, !.dim_increment = Some(4)]

CombinePaths ==
    {[j \in 1..Len(dims) |-> CombineCluster(j, dims[j])] :
        dims \in StringsUpTo(CombineDims, 2)}

CombineVariants ==
    {[i \in 1..Len(paths) |-> Variant(Peripheral(PA, 0, <<>>), paths[i], R0)] :
        paths \in {p \in StringsUpTo(CombinePaths, 2) : p # <<>>}}

InitCombine ==
    /\ PipelineIdle
    /\ input \in CombineVariants
    /\ pc = "combine"
    /\ ret = NoCall

\* one call of for_each_clusters_combination; calls are the arguments of g
Combine ==
    /\ pc = "combine"
    /\ ret' = [calls |-> for_each_clusters_combination(input)]
    /\ pc' = "combined"
    /\ UNCHANGED <<pipeline_vars, input>>

NextCombine == Combine

SpecCombine == InitCombine /\ [][NextCombine]_vars

\* the index tuples within the dims of the clusters of a path
TuplesWithin(clusters) ==
    {t \in [1..Len(clusters) -> 0..(MaxClusterDim - 1)] :
        \A j \in 1..Len(clusters) : t[j] < UnwrapOr(clusters[j].dim, 1)}

\* the names f folds for a path whose clusters have the indices t
TupleNames(clusters, t) ==
    [j \in 1..Len(clusters) |-> dim_name(t[j], clusters[j].name)]

\* C16: per-variant truncation.  For every variant of the list and every
\* index tuple within the dims of the clusters of that variant,
\* for_each_clusters_combination calls g with a combination in which the
\* variant has that tuple, whatever the dims of the other variants are.
C16_PerVariantTruncation ==
    pc = "combined" =>
        \A i \in 1..Len(input) : \A t \in TuplesWithin(input[i].clusters) :
            \E c \in 1..Len(ret.calls) :
                ret.calls[c][i].name = TupleNames(input[i].clusters, t)

-----------------------------------------------------------------------------
(* trace_variants called on one device whose alias references may name     *)
(* keys that do not exist.  Every alias that names an existing key names   *)
(* one of its own kind.                                                    *)

MaxTraceLen == 2

AX == [Register(<<"AX">>, 0) EXCEPT !.alternate_register = Some(<<"RX">>)]

CQ == [Cluster(<<"CQ">>, 0, <<R0>>) EXCEPT !.alternate_cluster = Some(<<"CW">>)]

\* clusters whose own trees hold a reference to a missing key
CN == Cluster(<<"CN">>, 0, <<R0, AX>>)

CNC == Cluster(<<"CNC">>, 0, <<CQ>>)

\* a cluster whose register R0 has two aliases
CR == Cluster(<<"CR">>, 0, <<A4, R0, A0>>)

TraceEntries == {R0, A0, AX, CY, CX, CQ, CN, CNC}

\* A0 and CX are aliases of R0 and CY, which the tree may hold or not
TraceTrees ==
    {tree \in StringsUpTo(TraceEntries, MaxTraceLen) :
        \A i, j \in 1..Len(tree) : i # j => tree[i].name # tree[j].name}

TraceDevices ==
    {Device(<<Peripheral(PA, 0, tree_a), Linked(Peripheral(PB, 0, tree_b), link)>>) :
        tree_a \in TraceTrees,
        tree_b \in {<<>>, <<R0>>, <<AX>>, <<CNC>>, <<CY, CX>>, <<R0, A0, A4>>, <<CR>>},
        link \in {"none", "alternate", "alternate missing"}}

InitTrace ==
    /\ PipelineIdle
    /\ \E dev \in TraceDevices, excl \in Excludes, swap \in BOOLEAN :
          input = [device |-> IF swap
                              THEN [dev EXCEPT !.peripherals =
                                       <<dev.peripherals[2], dev.peripherals[1]>>]
                              ELSE dev,
                   exclude |-> excl]
    /\ pc = "trace"
    /\ ret = NoCall

\* one call of trace_variants
TraceCall ==
    /\ pc = "trace"
    /\ ret' = trace_variants(input.device, input.exclude)
    /\ pc' = "trace done"
    /\ UNCHANGED <<pipeline_vars, input>>

NextTrace == TraceCall

SpecTrace == InitTrace /\ [][NextTrace]_vars

Names(map) == {map[i].name : i \in 1..Len(map)}

RECURSIVE DanglingKinds(_)
\* the kinds of the references of a tree, at any depth, that name a key their
\* own tree does not hold
DanglingKinds(tree) ==
    {"register" : k \in {k \in 1..Len(tree) :
        /\ tree[k].kind = "register"
        /\ tree[k].alternate_register # None
        /\ tree[k].alternate_register[1] \notin Names(tree)}}
    \cup {"cluster" : k \in {k \in 1..Len(tree) :
        /\ tree[k].kind = "cluster"
        /\ tree[k].alternate_cluster # None
        /\ tree[k].alternate_cluster[1] \notin Names(tree)}}
    \cup UNION {DanglingKinds(tree[k].register) :
                   k \in {k \in 1..Len(tree) : tree[k].kind = "cluster"}}

\* the kinds of the dangling references of the peripherals that are traced
DanglingIn(dev, excl) ==
    UNION {DanglingKinds(dev.peripherals[p].registers)
           \cup {"peripheral" : x \in {x \in {p} :
                    /\ dev.peripherals[p].alternate_peripheral # None
                    /\ dev.peripherals[p].alternate_peripheral[1]
                       \notin Names(dev.peripherals)}} :
           p \in {p \in 1..Len(dev.peripherals) :
                     dev.peripherals[p].name \notin Range(excl)}}

NotFound(kind) ==
    CASE kind = "register" -> "register referenced in alternateRegister not found"
      [] kind = "cluster" -> "cluster referenced in alternateCluster not found"
      [] kind = "peripheral" -> "peripheral referenced in alternatePeripheral not found"

-----------------------------------------------------------------------------
(* generate_interrupts.rs: the interrupts of the peripherals of a device,  *)
(* the peripherals in the order their map yields them.  An entry written   *)
(* is the interrupt it was written for.                                    *)

MaxInterrupts == 2

Interrupt(name, description, value) ==
    [name |-> name, description |-> description, value |-> value]

Interrupts ==
    {Interrupt(name, d[1], d[2]) :
        name \in {"I0", "I1"}, d \in {<<"a", 0>>, <<"b", 1>>, <<"a", 1>>}}

InterruptLists == StringsUpTo(Interrupts, MaxInterrupts)

InitInterrupts ==
    /\ PipelineIdle
    /\ \E first \in InterruptLists, second \in InterruptLists, third \in {<<>>, <<Interrupt("I0", "c", 2)>>} :
          input = <<[name |-> PA, interrupt |-> first], [name |-> PB, interrupt |-> second],
                    [name |-> PC, interrupt |-> third]>>
    /\ pc = "interrupts"
    /\ ret = [next |-> 1, int_names |-> {}, output |-> <<>>]

InterruptIsNew_always(interrupt, int_names) == TRUE

\* int_names.insert(interrupt.name.to_owned()): TRUE when the name was not there
InterruptIsNew(interrupt, int_names) == interrupt.name \notin int_names

RECURSIVE InterruptsFrom(_, _, _)
\* generate_peripheral of generate_interrupts.rs, from interrupt i on;
\* st: [next, int_names, output]
InterruptsFrom(interrupts, i, st) ==
    IF i > Len(interrupts) THEN st
    ELSE IF InterruptIsNew(interrupts[i], st.int_names)
    THEN InterruptsFrom(interrupts, i + 1,
             [st EXCEPT !.int_names = @ \cup {interrupts[i].name},
                        !.output = Append(@, interrupts[i])])
    ELSE InterruptsFrom(interrupts, i + 1,
             [st EXCEPT !.int_names = @ \cup {interrupts[i].name}])

\* one round of the loop of generate_interrupts
InterruptsOfPeripheral ==
    /\ pc = "interrupts"
    /\ ret.next <= Len(input)
    /\ ret' = [InterruptsFrom(input[ret.next].interrupt, 1, ret) EXCEPT !.next = @ + 1]
    /\ UNCHANGED <<pipeline_vars, input, pc>>

\* the Ok(()) that ends generate_interrupts
InterruptsReturn ==
    /\ pc = "interrupts"
    /\ ret.next > Len(input)
    /\ pc' = "interrupts done"
    /\ UNCHANGED <<pipeline_vars, input, ret>>

NextInterrupts == InterruptsOfPeripheral \/ InterruptsReturn

SpecInterrupts == InitInterrupts /\ [][NextInterrupts]_vars

RECURSIVE Concat(_)
Concat(lists) == IF lists = <<>> THEN <<>> ELSE Head(lists) \o Concat(Tail(lists))

\* the interrupts of the device, peripheral by peripheral, as declared
Declared == Concat([p \in 1..Len(input) |-> input[p].interrupt])

\* the positions of Declared at which a name stands for the first time
FirstOccurrences ==
    SelectSeq([k \in 1..Len(Declared) |-> k],
              LAMBDA k : \A j \in 1..(k - 1) : Declared[j].name # Declared[k].name)

\* C18: interrupt deduplication.  generate_interrupts writes one entry for
\* each distinct interrupt name of the device, in the order in which the
\* names first occur (peripheral by peripheral, then as declared), each
\* with the description and value of the first interrupt of that name;
\* a later interrupt of the same name is dropped, whatever its value.
C18_InterruptDeduplication ==
    pc = "interrupts done" =>
        ret.output = [i \in 1..Len(FirstOccurrences) |-> Declared[FirstOccurrences[i]]]

\* a name declared in two peripherals with different values, written once
C18_Witness ==
    /\ pc = "interrupts done"
    /\ input[1].interrupt = <<Interrupt("I1", "a", 0), Interrupt("I0", "b", 1)>>
    /\ input[2].interrupt = <<Interrupt("I1", "b", 1)>>
    /\ input[3].interrupt = <<Interrupt("I0", "c", 2)>>
    /\ ret.output = input[1].interrupt

-----------------------------------------------------------------------------
(* Properties of the index pass (specification Spec)                       *)

\* the peripherals the index pass has visited: those before idx that are
\* not excluded
IndexedPeripherals ==
    {p \in 1..Len(device.peripherals) : p < idx /\ NotExcluded(device.peripherals[p])}

\* the classes of the registers visited for peripheral p
ClassesOf(p) ==
    {collect_variants(device, device.peripherals[p],
                      ParentOf(device, device.peripherals[p]), visit.clusters,
                      visit.register).variants :
        visit \in Range(VisitsOf(device, device.peripherals[p]))}

\* element i of the class is recorded in the round of the loops that slot is,
\* under the peripheral instance name with the register-path name
OccursIn(slot, variant, i, peripheral_name, name) ==
    /\ slot.peripheral_n < UnwrapOr(variant.peripheral.dim, 1)
    /\ slot.register_n < UnwrapOr(variant.register.dim, 1)
    /\ peripheral_name = dim_name(slot.peripheral_n, variant.peripheral.name)
    /\ name = Append(slot.clusters_data[i].name,
                     dim_name(slot.register_n, variant.register.name))

OccursAs(class, i, peripheral_name, name) ==
    \E slot \in Range(UnitSlots(class)) :
        OccursIn(slot, class[i], i, peripheral_name, name)

\* the name occurred as the first element of a visited class
OccursFirst(peripheral_name, name) ==
    \E p \in IndexedPeripherals : \E class \in ClassesOf(p) :
        OccursAs(class, 1, peripheral_name, name)

\* the name occurred as a later element of a visited class
OccursLater(peripheral_name, name) ==
    \E p \in IndexedPeripherals : \E class \in ClassesOf(p) :
        \E i \in 2..Len(class) : OccursAs(class, i, peripheral_name, name)

\* C19: the primary flag of the index.  While and after
\* generate_peripheral_index runs over the peripherals that are not
\* excluded, a register-path name recorded under a peripheral instance is
\* primary iff it occurred as the first element of a visited class and never
\* as a later element of one; a name recorded as not primary by an earlier
\* visit stays so.
C19_PrimaryFlag ==
    (pc \in {"index loop", "index done"} /\ ret.tag \in {"running", "ok"}) =>
        \A e \in 1..Len(ret.index) : \A r \in 1..Len(ret.index[e].registers) :
            /\ ret.index[e].registers[r].primary
               <=> (/\ OccursFirst(ret.index[e].name, ret.index[e].registers[r].name)
                    /\ ~OccursLater(ret.index[e].name, ret.index[e].registers[r].name))
            /\ (OccursFirst(ret.index[e].name, ret.index[e].registers[r].name)
                \/ OccursLater(ret.index[e].name, ret.index[e].registers[r].name))

\* PB.R0 was recorded as not primary when PA was visited and was then
\* visited as the first element of its own class
C19_Witness ==
    /\ pc = "index done" /\ ret.tag = "ok"
    /\ \E e \in 1..Len(ret.index) : \E r \in 1..Len(ret.index[e].registers) :
           /\ ~ret.index[e].registers[r].primary
           /\ OccursFirst(ret.index[e].name, ret.index[e].registers[r].name)
           /\ OccursLater(ret.index[e].name, ret.index[e].registers[r].name)
    /\ \E e \in 1..Len(ret.index) : \E r \in 1..Len(ret.index[e].registers) :
           ret.index[e].registers[r].primary

-----------------------------------------------------------------------------
(* device/peripheral.rs Peripheral::remove_reg called on one peripheral.   *)
(* A path is its sequence of characters, a name counting as one character  *)
(* that is not '/'.                                                        *)

MaxPathLen == 5

\* Vec::pop, the last entry dropped whatever i is
SwapRemove_pop(map, i) == SubSeq(map, 1, Len(map) - 1)

\* IndexMap::remove is swap_remove: the last entry takes the place of the
\* removed one
SwapRemove(map, i) ==
    IF i = Len(map) THEN SubSeq(map, 1, Len(map) - 1)
    ELSE [k \in 1..(Len(map) - 1) |-> IF k = i THEN map[Len(map)] ELSE map[k]]

\* path.splitn(2, '/'): the name and what follows the first '/', if any
SplitN2(path) ==
    IF Find(path, "/") = 0 THEN [name |-> path, rest |-> None]
    ELSE [name |-> SubSeq(path, 1, Find(path, "/") - 1),
          rest |-> Some(SubSeq(path, Find(path, "/") + 1, Len(path)))]

Panic(kind, tree) == [tag |-> "panic", kind |-> kind, tree |-> tree]

RECURSIVE tree_remove_reg(_, _)
RECURSIVE TreeRemoveFrom(_, _, _)

\* the for key in tree.keys() loop of tree_remove_reg, from key i on
TreeRemoveFrom(tree, split, i) ==
    IF i > Len(tree) THEN Panic("register not found", tree)
    ELSE IF tree[i].name # split.name THEN TreeRemoveFrom(tree, split, i + 1)
    ELSE IF tree[i].kind = "register"
    THEN IF split.rest = None
         THEN [tag |-> "ok", val |-> tree[i], tree |-> SwapRemove(tree, i)]
         ELSE Panic("extra segments at the tail", tree)
    ELSE IF split.rest = None
    THEN Panic("called Option::unwrap() on a None value", tree)
    ELSE LET inner == tree_remove_reg(tree[i].register, split.rest[1]) IN
         IF inner.tag = "panic" THEN Panic(inner.kind, tree)
         ELSE [tag |-> "ok", val |-> inner.val,
               tree |-> [tree EXCEPT ![i].register = inner.tree]]

tree_remove_reg(tree, path) == TreeRemoveFrom(tree, SplitN2(path), 1)

\* Peripheral::remove_reg; registers is the Option the peripheral holds
Peripheral_remove_reg(registers, path) ==
    IF registers = None
    THEN [tag |-> "panic", kind |-> "called Option::unwrap() on a None value",
          registers |-> registers]
    ELSE LET removed == tree_remove_reg(registers[1], path) IN
         IF removed.tag = "panic"
         THEN [tag |-> "panic", kind |-> removed.kind, registers |-> registers]
         ELSE [tag |-> "ok", val |-> removed.val, registers |-> Some(removed.tree)]

CD == Cluster(<<"CD">>, 8, <<R1, CY, R0>>)

RemoveTrees ==
    {<<>>, <<R0>>, <<R0, R1>>, <<CY, R1>>, <<R0, CY, R1>>, <<CD>>, <<R1, CD, R0>>,
     <<CD, CY, R0>>}

PathChars == {"R0", "R1", "CY", "CD", "/"}

InitRemove ==
    /\ PipelineIdle
    /\ \E registers \in {None} \cup {Some(tree) : tree \in RemoveTrees},
          path \in StringsUpTo(PathChars, MaxPathLen) :
          input = [registers |-> registers, path |-> path]
    /\ pc = "remove"
    /\ ret = NoCall

\* one call of Peripheral::remove_reg
RemoveReg ==
    /\ pc = "remove"
    /\ ret' = Peripheral_remove_reg(input.registers, input.path)
    /\ pc' = "removed"
    /\ UNCHANGED <<pipeline_vars, input>>

NextRemove == RemoveReg

SpecRemove == InitRemove /\ [][NextRemove]_vars

RECURSIVE Segments(_)
\* the '/'-separated segments of a path
Segments(path) ==
    IF Find(path, "/") = 0 THEN <<path>>
    ELSE <<SubSeq(path, 1, Find(path, "/") - 1)>>
         \o Segments(SubSeq(path, Find(path, "/") + 1, Len(path)))

RECURSIVE NodesAt(_, _)
\* the nodes of a tree, each with the names on its way from the root and
\* without what it holds
NodesAt(tree, prefix) ==
    UNION {{<<Append(prefix, tree[k].name),
              IF tree[k].kind = "cluster" THEN [tree[k] EXCEPT !.register = <<>>]
              ELSE tree[k]>>}
           \cup (IF tree[k].kind = "cluster"
                 THEN NodesAt(tree[k].register, Append(prefix, tree[k].name))
                 ELSE {}) : k \in 1..Len(tree)}

\* the registers a path addresses: cluster names, then a register name
RegistersAtPath(registers, path) ==
    IF registers = None THEN {}
    ELSE {n \in NodesAt(registers[1], <<>>) :
             /\ n[2].kind = "register"
             /\ Len(n[1]) = Len(Segments(path))
             /\ \A k \in 1..Len(n[1]) : Join(n[1][k]) = Join(Segments(path)[k])}

NodesOf(registers) == IF registers = None THEN {} ELSE NodesAt(registers[1], <<>>)

\* C21: path-addressed removal.  When a register exists at the path,
\* Peripheral::remove_reg returns exactly that register and the tree holds
\* afterwards every other register and cluster, each with the content it
\* had, and nothing else; when none exists the call panics and the tree is
\* what it was.
C21_PathAddressedRemoval ==
    pc = "removed" =>
        IF RegistersAtPath(input.registers, input.path) = {}
        THEN ret.tag = "panic" /\ ret.registers = input.registers
        ELSE /\ ret.tag = "ok"
             /\ \E n \in RegistersAtPath(input.registers, input.path) :
                   /\ ret.val = n[2]
                   /\ NodesOf(ret.registers) = NodesOf(input.registers) \ {n}

\* a register inside a cluster inside a cluster is removed, and the cluster
\* that held it keeps two more registers
C21_Witness ==
    /\ pc = "removed"
    /\ input.registers = Some(<<R1, CD, R0>>)
    /\ input.path = <<"CD", "/", "R1">>
    /\ ret.tag = "ok"
    /\ ret.val = R1
    /\ ret.registers = Some(<<R1, Cluster(<<"CD">>, 8, <<R0, CY>>), R0>>)

-----------------------------------------------------------------------------
(* The variants lists of the registers after trace_variants *)

RECURSIVE SubTrees(_)
\* a tree and the trees of its clusters, at any depth
SubTrees(tree) ==
    {tree} \cup UNION {SubTrees(tree[k].register) :
                          k \in {k \in 1..Len(tree) : tree[k].kind = "cluster"}}

RECURSIVE RegisterAliasKeys(_, _, _)
\* the keys of the registers of a tree from entry k on that declare the
\* register named name as their alternate_register, in the order of the tree
RegisterAliasKeys(tree, name, k) ==
    IF k > Len(tree) THEN <<>>
    ELSE (IF tree[k].kind = "register" /\ tree[k].alternate_register = Some(name)
          THEN <<tree[k].name>> ELSE <<>>)
         \o RegisterAliasKeys(tree, name, k + 1)

\* the trees that trace_variants has traced, at any depth
TracedTrees ==
    UNION {SubTrees(ret.device.peripherals[p].registers) :
              p \in {p \in 1..Len(ret.device.peripherals) :
                        ret.device.peripherals[p].name \notin Range(input.exclude)}}

\* C22: register aliasing is a single one-way push.  Once trace_variants has
\* returned Ok, the variants of every register R of a traced tree hold the
\* key of each register that declares alternate_register = R, once and in
\* the order of the tree, and nothing else: an alias does not receive its
\* target, and the aliases of one target do not receive each other.
C22_RegisterAliasOneWay ==
    (pc = "trace done" /\ ret.tag = "ok") =>
        \A tree \in TracedTrees : \A k \in 1..Len(tree) :
            tree[k].kind = "register" =>
                tree[k].variants = RegisterAliasKeys(tree, tree[k].name, 1)

\* R0 has two aliases, one before and one after it, inside a cluster
C22_Witness ==
    /\ pc = "trace done"
    /\ ret.tag = "ok"
    /\ \E tree \in TracedTrees :
          /\ Len(tree) = 3
          /\ tree[1].name = <<"A4">> /\ tree[1].variants = <<>>
          /\ tree[2].name = <<"R0">> /\ tree[2].variants = <<<<"A4">>, <<"A0">>>>
          /\ tree[3].name = <<"A0">> /\ tree[3].variants = <<>>

-----------------------------------------------------------------------------
(* generate_peripheral called on the last peripheral of a chain: P3 is     *)
(* derived from P2 and P2 from P1.  The registers define no attribute, so  *)
(* that every attribute comes from a peripheral or from the device.        *)

P1 == <<"P1">>
P2 == <<"P2">>
P3 == <<"P3">>

\* a register only the tree of P1 may hold
RZ == Register(<<"RZ">>, 8)

R4 == Register(<<"R4">>, 4)

\* the size, reset value and access one level defines; tag tells the level
LevelAttributes(tag) ==
    {[size |-> size, reset_value |-> reset_value, access |-> access] :
        size \in {None, Some(8 * tag)}, reset_value \in {None, Some(tag)},
        access \in {None, Some(IF tag = 1 THEN "read-only" ELSE "write-only")}}

ChainPeripheral(name, derived_from, tree, attributes) ==
    [Peripheral(name, 0, tree) EXCEPT
        !.derived_from = derived_from, !.size = attributes.size,
        !.reset_value = attributes.reset_value, !.access = attributes.access]

ChainDevice(tree1, tree2, tree3, a1, a2, a3, a0) ==
    [Device(<<ChainPeripheral(P1, None, tree1, a1),
              ChainPeripheral(P2, Some(P1), tree2, a2),
              ChainPeripheral(P3, Some(P2), tree3, a3)>>)
        EXCEPT !.size = a0.size, !.reset_value = a0.reset_value]

InitChain ==
    /\ PipelineIdle
    /\ \E tree1 \in {<<>>, <<RZ>>, <<RZ, R0>>}, tree2 \in {<<>>, <<R4>>, <<R0, R4>>},
          tree3 \in {<<>>, <<R0>>},
          a1 \in LevelAttributes(1), a2 \in LevelAttributes(2),
          a3 \in {a \in LevelAttributes(3) : a.access = None},
          a0 \in {a \in LevelAttributes(4) : a.access = None} :
          input = ChainDevice(tree1, tree2, tree3, a1, a2, a3, a0)
    /\ pc = "chain"
    /\ ret = NoCall

\* generate_peripheral on P3, nothing generated before, every unit written
GenerateDerived ==
    /\ pc = "chain"
    /\ ret' = generate_peripheral(input, input.peripherals[3], {}, <<>>, 1, 1)
    /\ pc' = "chain done"
    /\ UNCHANGED <<pipeline_vars, input>>

NextChain == GenerateDerived

SpecChain == InitChain /\ [][NextChain]_vars

\* the names of the registers of the trees of P3 and of P2
ChainVisited ==
    {Join(n) : n \in Names(input.peripherals[2].registers)
                     \cup Names(input.peripherals[3].registers)}

\* the first value P3, P2 and the device define, in this order
OneHop(a3, a2, a0) == OptOr(a3, OptOr(a2, a0))

ChainSize ==
    OneHop(input.peripherals[3].size, input.peripherals[2].size, input.size)

ChainResetValue ==
    OneHop(input.peripherals[3].reset_value, input.peripherals[2].reset_value,
           input.reset_value)

ChainAccess ==
    OneHop(input.peripherals[3].access, input.peripherals[2].access, input.access)

\* the instances written, whatever unit holds them
ChainInstances == UNION {Range(unit) : unit \in Range(ret.st.output)}

\* C23: single-hop inheritance.  generate_peripheral on P3 visits the
\* registers of the trees of P3 and of P2 and no register of P1 alone, and
\* gives each the size, reset value and access that P3, P2 or the device
\* defines, never those of P1; when a register is visited and neither P3
\* nor P2 nor the device defines a size or a reset value, it fails.
C23_SingleHopInheritance ==
    pc = "chain done" =>
        IF ChainVisited # {} /\ (ChainSize = None \/ ChainResetValue = None)
        THEN /\ ret.tag = "err"
             /\ ret.kind \in {"missing register size", "missing reset value"}
             /\ ret.st.output = <<>>
        ELSE /\ ret.tag = "ok"
             /\ {i.name : i \in ChainInstances} = {<<n>> : n \in ChainVisited}
             /\ \A i \in ChainInstances :
                   /\ i.peripheral_name = "P3"
                   /\ Some(i.size) = ChainSize
                   /\ Some(i.reset_value) = ChainResetValue
                   /\ i.access = ChainAccess

\* P1 alone defines every attribute and holds RZ: the registers of P3 fail
C23_Witness ==
    /\ pc = "chain done"
    /\ input.peripherals[1].registers = <<RZ, R0>>
    /\ input.peripherals[1].size = Some(8)
    /\ input.peripherals[1].reset_value = Some(1)
    /\ input.peripherals[2].registers = <<R4>>
    /\ input.peripherals[3].registers = <<R0>>
    /\ ChainSize = None
    /\ ChainResetValue = Some(2)
    /\ ret.tag = "err"
    /\ ret.kind = "missing register size"

-----------------------------------------------------------------------------
(* The calls of g for a single variant *)

\* the dims of the clusters of a path, an absent dim counting as 1
PathDims(clusters) == [j \in 1..Len(clusters) |-> UnwrapOr(clusters[j].dim, 1)]

\* the rank of the index tuple t among the tuples within dims when the
\* index of depth 0 varies fastest
TupleRank(dims, t) ==
    SeqSum([j \in 1..Len(dims) |-> t[j] * SeqProduct(SubSeq(dims, 1, j - 1))])

\* C24: exact enumeration for a single variant.  With one variant whose
\* clusters have the dims d0..dk, for_each_clusters_combination calls g
\* d0*...*dk times, and the call of rank r is the one for the index tuple
\* of rank r when the index of the outermost cluster varies fastest; with
\* no cluster in any variant it calls g once, with the initial value for
\* every variant.
C24_ExactEnumeration ==
    pc = "combined" =>
        /\ Len(input) = 1 =>
              /\ Len(ret.calls) = SeqProduct(PathDims(input[1].clusters))
              /\ \A t \in TuplesWithin(input[1].clusters) :
                    ret.calls[TupleRank(PathDims(input[1].clusters), t) + 1][1].name
                    = TupleNames(input[1].clusters, t)
        /\ (\A i \in 1..Len(input) : input[i].clusters = <<>>) =>
              ret.calls = <<[i \in 1..Len(input) |-> [name |-> <<>>, address |-> 0]]>>

\* one variant below cluster arrays of dims 2 and 3: six calls, the second
\* of them with the outer index 1 and the inner index 0
C24_Witness ==
    /\ pc = "combined"
    /\ Len(input) = 1
    /\ PathDims(input[1].clusters) = <<2, 3>>
    /\ Len(ret.calls) = 6
    /\ ret.calls[2][1].name = <<"C_1", "D_0">>
    /\ ret.calls[3][1].name = <<"C_0", "D_1">>

-----------------------------------------------------------------------------
\* C25: one unit, one address.  All the instances the register pass has
\* written inside one reg! unit have the same absolute address, the address
\* of an instance being the base address of its peripheral plus the strides
\* and offsets of its peripheral index, its clusters and its register.
C25_OneUnitOneAddress ==
    \A u \in 1..Len(output) :
        \A a, b \in Range(output[u]) : a.address = b.address

-----------------------------------------------------------------------------
\* the (peripheral instance name, register path) pairs written so far
WrittenKeys == {InstanceKey(i) : i \in UNION {Range(unit) : unit \in Range(output)}}

\* C26: no instance is lost by deduplication.  In the unstriped register
\* pass every pair that generate_peripheral has inserted into generated is
\* written in some reg! unit.
C26_NoInstanceLost ==
    pool_number = 0 => generated \subseteq WrittenKeys

-----------------------------------------------------------------------------
\* C27: each name is emitted at most once.  In the unstriped register pass
\* the instances written so far, over all reg! units, have pairwise
\* different (peripheral instance name, register path) pairs.
C27_EmittedAtMostOnce ==
    pool_number = 0 =>
        SeqSum([u \in 1..Len(output) |-> Len(output[u])]) = Cardinality(WrittenKeys)

\* PB is an alias of PA: the pass has written PA.R0 and PB.R0 in one unit
\* when it visited PA and has then visited PB, where PB.R0 is reached again
C27_Witness ==
    /\ pool_number = 0
    /\ pc = "done"
    /\ result.tag = "ok"
    /\ Len(device.peripherals) = 2
    /\ device.peripherals[1].name = PA
    /\ device.peripherals[2].alternate_peripheral = Some(PA)
    /\ device.peripherals[2].registers = <<R0>>
    /\ exclude = <<>>
    /\ \E u \in 1..Len(output) :
          {InstanceKey(i) : i \in Range(output[u])} = {<<"PA", <<"R0">>>>, <<"PB", <<"R0">>>>}

-----------------------------------------------------------------------------
\* the (peripheral instance name, register path) pairs the index holds
IndexedKeys ==
    UNION {{<<ret.index[e].name, ret.index[e].registers[r].name>> :
               r \in 1..Len(ret.index[e].registers)} : e \in 1..Len(ret.index)}

\* the pairs the runs of the pool numbers 1..pool_size wrote
PoolKeys ==
    {InstanceKey(i) :
        i \in UNION {Range(unit) :
                        unit \in UNION {Range(runs[k].output) : k \in 2..Len(runs)}}}

\* C28: the index and register passes agree.  When generate_index and the
\* runs of generate_regs for every pool number have returned Ok on the same
\* device and exclusion list, the pairs the index holds are the pairs the
\* runs wrote.
C28_IndexAgreesWithRegs ==
    (/\ pc = "index done"
     /\ ret.tag = "ok"
     /\ \A k \in 2..Len(runs) : runs[k].result.tag = "ok") =>
        IndexedKeys = PoolKeys

-----------------------------------------------------------------------------
\* C29: variant naming is total.  For every location the register pass
\* visits on a traced device, collect_variants returns, with the class or
\* with an error, and does not panic.
C29_VariantNamingTotal ==
    AtPeripheral =>
        \A n \in 1..Len(CurrentVisits) : CurrentClass(CurrentVisits[n]).tag # "panic"

-----------------------------------------------------------------------------
\* C30: failure does not depend on the pool.  Once the runs of every pool
\* number of 1..pool_size have ended on the same device and exclusion list,
\* either all of them have returned an error or none has, and the error
\* is the same in all of them.
C30_FailureIndependentOfPool ==
    pc = "end" =>
        \A j, k \in 2..Len(runs) :
            runs[j].result.tag = "err" => runs[k].result = runs[j].result

\* two pools fail for a missing size although the one unit written before
\* the failure belongs to the second pool
C30_Witness ==
    /\ pc = "end"
    /\ pool_size = 2
    /\ Len(runs) = 3
    /\ \A k \in 1..3 : runs[k].result = [tag |-> "err", kind |-> "missing register size"]
    /\ Len(runs[1].output) = 1
    /\ runs[2].output = <<>>
    /\ runs[3].output = runs[1].output

====
